---- MODULE Spec2Model ----
(***************************************************************************)
(* Label designer: the master/override composition engine                  *)
(* (src/src/lib/masterOverride.ts), the design store                       *)
(* (src/src/store/designStore.ts) and the handlers of the canvas, the      *)
(* property panel and the keyboard that write to them.                     *)
(*                                                                         *)
(* An element is the record [id, zIndex, x, visible]: x stands for the     *)
(* element's Transform, which every caller replaces as a whole.  A patch   *)
(* (Partial<DesignElement>) is a record of optional fields, each <<>>      *)
(* (absent) or <<v>>.  An optional value is a sequence of length 0 or 1.   *)
(***************************************************************************)
EXTENDS Integers, Sequences, FiniteSets, TLC

\* ------------------------------------------------------------------ bounds
\* Number of distinct element ids of the master, and so its longest list.
MaxElems == 2
\* Largest zIndex an input element or patch carries (values 0..MaxZ).
MaxZ == 1
\* Calls of getEffectiveElements in a row on the same inputs.
MaxResolves == 2
\* Label slots of the sheet set (totalLabels of getAffectedLabels).
MaxSlots == 2

ElementIds == 1..MaxElems
\* Id of a label-specific (additional) element: never a master id.
ExtraId == 0
ZValues == 0..MaxZ

VARIABLES
    masterLabel,        \* [elements |-> Seq(Element)]
    labelOverrides,     \* Map<number, LabelOverride>: a function on the slots that have a record
    resolveLog,         \* the lists getEffectiveElements returned, in call order
    lastCall,           \* the last library call: its name, arguments and returned list
    supplied,           \* per element id, what the callers of createElementOverride
                        \* supplied for each field since the id's entry was last dropped
    viewMode,           \* "TEMPLATE" or "PREVIEW"
    previewPageIndex,   \* the page shown in preview mode
    selectedLabelIndex, \* number | null: None or Some(slot)
    selectedElementIds, \* string[]
    isDraggingElement,  \* CanvasRenderer's drag flag
    elementIdCounter,   \* ids handed out so far by generateElementId
    templateId,         \* state.template, named by its id
    clipboard,          \* state.clipboard: DesignElement[]
    columns,            \* dataStore.columns: DataColumn[]
    rows,               \* dataStore.rows: DataRow[]
    exportProgress,     \* Toolbar's export dialog state: isOpen, current, total
    exportJob,          \* the generateBulkPDF call in progress, and what it drew
    cancelClicked,      \* whether Cancel was clicked in the dialog of this export
    temporal            \* the undo/redo history (useDesignStore.temporal) and the
                        \* LabelOverride objects its snapshots and the store share

\* The library-level bookkeeping, which the store and its handlers leave alone.
libVars == <<resolveLog, lastCall, supplied>>
\* The store's view and selection state and the canvas's drag flag.
uiVars == <<viewMode, previewPageIndex, selectedLabelIndex, selectedElementIds,
            isDraggingElement, elementIdCounter>>

\* The rest of the store's state, which the handlers above the store's own
\* template, clipboard and z-order operations leave alone.
\* The data set and the bulk export.
sinkVars == <<columns, rows, exportProgress, exportJob, cancelClicked>>
otherVars == <<templateId, clipboard, sinkVars, temporal>>

vars == <<masterLabel, labelOverrides, resolveLog, lastCall, supplied,
          viewMode, previewPageIndex, selectedLabelIndex, selectedElementIds,
          isDraggingElement, elementIdCounter, templateId, clipboard,
          columns, rows, exportProgress, exportJob, cancelClicked, temporal>>

\* ------------------------------------------------------------- data model
None == <<>>
Some(v) == <<v>>

NoPatch == [zIndex |-> None, x |-> None, visible |-> None]

\* { ...base, ...patch } on an element
MergeElement(el, patch) ==
    [id      |-> el.id,
     zIndex  |-> IF patch.zIndex # None THEN patch.zIndex[1] ELSE el.zIndex,
     x       |-> IF patch.x # None THEN patch.x[1] ELSE el.x,
     visible |-> IF patch.visible # None THEN patch.visible[1] ELSE el.visible]

\* { ...stored, ...newer } on two patches
MergePatch(stored, newer) ==
    [zIndex  |-> IF newer.zIndex # None THEN newer.zIndex ELSE stored.zIndex,
     x       |-> IF newer.x # None THEN newer.x ELSE stored.x,
     visible |-> IF newer.visible # None THEN newer.visible ELSE stored.visible]

EmptyOverride(labelIndex) ==
    [labelIndex |-> labelIndex, elementOverrides |-> <<>>,
     hiddenElementIds |-> <<>>, additionalElements |-> <<>>]

\* Map.get
MapGet(map, k) == IF k \in DOMAIN map THEN Some(map[k]) ELSE None
\* Map.set on a copy
MapSet(map, k, v) == [j \in (DOMAIN map) \cup {k} |-> IF j = k THEN v ELSE map[j]]
\* Map.delete on a copy
MapDelete(map, k) == [j \in (DOMAIN map) \ {k} |-> map[j]]
EmptyMap == [j \in {} |-> None]

\* Array.prototype.includes
Includes(seq, v) == \E i \in 1..Len(seq) : seq[i] = v

\* Array.prototype.find on elementOverrides: the first entry for the id
FindElementOverride(elementOverrides, elementId) ==
    LET hits == {k \in 1..Len(elementOverrides) : elementOverrides[k].elementId = elementId}
    IN IF hits = {} THEN None
       ELSE Some(elementOverrides[CHOOSE k \in hits : \A j \in hits : k <= j])

\* ------------------------------------------------ getEffectiveElements
\* Array.prototype.sort((a, b) => a.zIndex - b.zIndex): stable, so an item goes
\* behind every item already placed whose zIndex is not larger.
InsertByZIndex_Unstable(sorted, item) ==
    LET before == {k \in 0..Len(sorted) : \A j \in 1..k : sorted[j].el.zIndex < item.el.zIndex}
        pos == CHOOSE k \in before : \A j \in before : j <= k
    IN SubSeq(sorted, 1, pos) \o <<item>> \o SubSeq(sorted, pos + 1, Len(sorted))
InsertByZIndex(sorted, item) ==
    LET before == {k \in 0..Len(sorted) : \A j \in 1..k : sorted[j].el.zIndex <= item.el.zIndex}
        pos == CHOOSE k \in before : \A j \in before : j <= k
    IN SubSeq(sorted, 1, pos) \o <<item>> \o SubSeq(sorted, pos + 1, Len(sorted))

RECURSIVE SortByZIndex(_)
SortByZIndex(items) ==
    IF items = <<>> THEN <<>>
    ELSE InsertByZIndex(SortByZIndex(SubSeq(items, 1, Len(items) - 1)), items[Len(items)])

\* The loop over masterLabel.elements (override present).  An item of the list
\* being built is [el, obj]: the element's fields and which object it is,
\* <<"master", i>> (the object masterLabel.elements[i]), <<"additional", j>>
\* (the object override.additionalElements[j]) or <<"copy", i>> (an object
\* allocated by this call from master element i).
HiddenWins_UnlessPatched(override, masterElement) ==
    /\ Includes(override.hiddenElementIds, masterElement.id)
    /\ FindElementOverride(override.elementOverrides, masterElement.id) = None
HiddenWins(override, masterElement) ==
    Includes(override.hiddenElementIds, masterElement.id)

RECURSIVE ProcessMaster(_, _, _)
ProcessMaster(elements, override, i) ==
    IF i > Len(elements) THEN <<>>
    ELSE LET masterElement == elements[i]
             elementOverride == FindElementOverride(override.elementOverrides, masterElement.id)
             rest == ProcessMaster(elements, override, i + 1)
         IN IF HiddenWins(override, masterElement) THEN rest
            ELSE IF elementOverride # None
                 THEN <<[el |-> MergeElement(masterElement, elementOverride[1].overrides),
                         obj |-> <<"copy", i>>]>> \o rest
                 ELSE <<[el |-> masterElement, obj |-> <<"copy", i>>]>> \o rest

\* Which array object `result` names when it is sorted: the literal [] and the
\* spread [...masterLabel.elements] are both arrays of the call's own.
ResultArray_Aliased(override) == IF override = None THEN "master.elements" ELSE "new"
ResultArray(override) == "new"

Els(items) == [i \in 1..Len(items) |-> items[i].el]

\* Returns the sorted list and the state of the caller's master array after
\* the call (sort works in place on whatever array `result` names).
getEffectiveElements(master, override) ==
    LET built ==
            IF override = None
            THEN [i \in 1..Len(master.elements) |->
                      [el |-> master.elements[i], obj |-> <<"master", i>>]]
            ELSE ProcessMaster(master.elements, override[1], 1)
                 \o [j \in 1..Len(override[1].additionalElements) |->
                      [el |-> override[1].additionalElements[j], obj |-> <<"additional", j>>]]
        sorted == SortByZIndex(built)
    IN [result |-> sorted,
        masterElements |-> IF ResultArray(override) = "master.elements"
                           THEN Els(sorted) ELSE master.elements]

\* ------------------------------------------------------ override management
hasOverrides(override) ==
    IF override = None THEN FALSE
    ELSE \/ Len(override[1].elementOverrides) > 0
         \/ Len(override[1].hiddenElementIds) > 0
         \/ Len(override[1].additionalElements) > 0

isElementOverridden(elementId, override) ==
    IF override = None THEN FALSE
    ELSE \/ FindElementOverride(override[1].elementOverrides, elementId) # None
         \/ Includes(override[1].hiddenElementIds, elementId)

\* elementOverrides after the existing entry's patch is replaced by `overrides`
\* alone instead of being merged with it.
StorePatch_Replace(elementOverrides, elementId, overrides) ==
    [i \in 1..Len(elementOverrides) |->
        IF elementOverrides[i].elementId = elementId
           /\ \A j \in 1..(i - 1) : elementOverrides[j].elementId # elementId
        THEN [elementId |-> elementId, overrides |-> overrides]
        ELSE elementOverrides[i]]

\* existingElementOverride.overrides = { ...existingElementOverride.overrides,
\* ...overrides } on the entry that find() returned (the first with the id).
StorePatch(elementOverrides, elementId, overrides) ==
    [i \in 1..Len(elementOverrides) |->
        IF elementOverrides[i].elementId = elementId
           /\ \A j \in 1..(i - 1) : elementOverrides[j].elementId # elementId
        THEN [elementId |-> elementId,
              overrides |-> MergePatch(elementOverrides[i].overrides, overrides)]
        ELSE elementOverrides[i]]

\* The record createElementOverride returns.  When existingOverride is given,
\* the returned record is that same object, changed in place.
createElementOverride(labelIndex, elementId, overrides, existingOverride) ==
    LET base == IF existingOverride # None THEN existingOverride[1]
                ELSE EmptyOverride(labelIndex)
    IN IF FindElementOverride(base.elementOverrides, elementId) # None
       THEN [base EXCEPT !.elementOverrides = StorePatch(@, elementId, overrides)]
       ELSE [base EXCEPT !.elementOverrides =
                Append(@, [elementId |-> elementId, overrides |-> overrides])]

\* hiddenElementIds.filter(id => id !== elementId)
WithoutId(ids, elementId) ==
    LET Keep(id) == id # elementId IN SelectSeq(ids, Keep)

\* elementOverrides.filter(eo => eo.elementId !== elementId)
WithoutEntry(elementOverrides, elementId) ==
    LET Keep(eo) == eo.elementId # elementId IN SelectSeq(elementOverrides, Keep)

\* removeElementOverride that leaves hiddenElementIds as it was.
removeElementOverride_KeepHidden(elementId, override) ==
    [override EXCEPT !.elementOverrides = WithoutEntry(@, elementId)]

removeElementOverride(elementId, override) ==
    [override EXCEPT !.elementOverrides = WithoutEntry(@, elementId),
                     !.hiddenElementIds = WithoutId(@, elementId)]

\* The record hideElement returns; as in createElementOverride, a given
\* existingOverride is changed in place.
hideElement(labelIndex, elementId, existingOverride) ==
    LET base == IF existingOverride # None THEN existingOverride[1]
                ELSE EmptyOverride(labelIndex)
    IN IF ~Includes(base.hiddenElementIds, elementId)
       THEN [base EXCEPT !.hiddenElementIds = Append(@, elementId)]
       ELSE base

showElement(elementId, override) ==
    [override EXCEPT !.hiddenElementIds = WithoutId(@, elementId)]

resetElementOverride(elementId, override) ==
    [override EXCEPT !.elementOverrides = WithoutEntry(@, elementId),
                     !.hiddenElementIds = WithoutId(@, elementId)]

\* The loop of getAffectedLabels from index i on.
RECURSIVE getAffectedLabelsFrom(_, _, _, _)
getAffectedLabelsFrom(i, elementId, totalLabels, overrides) ==
    IF i >= totalLabels THEN <<>>
    ELSE (IF ~isElementOverridden(elementId, MapGet(overrides, i)) THEN <<i>> ELSE <<>>)
         \o getAffectedLabelsFrom(i + 1, elementId, totalLabels, overrides)

getAffectedLabels(elementId, totalLabels, overrides) ==
    getAffectedLabelsFrom(0, elementId, totalLabels, overrides)

willMasterChangeAffectLabel(elementId, labelIndex, overrides) ==
    ~isElementOverridden(elementId, MapGet(overrides, labelIndex))

\* ------------------------------------------------------- inputs of SpecResolve
\* Masters of 0..MaxElems elements.  Ids are opaque, so the ids of a master of
\* n elements are taken to be 1..n in list order; the ids above n are the ids
\* of deleted elements, which an override may still name.
MasterInputs ==
    UNION {{[elements |-> [k \in 1..n |->
                  [id |-> k, zIndex |-> zs[k], x |-> 0, visible |-> TRUE]]]
            : zs \in [1..n -> ZValues]} : n \in 0..MaxElems}

PatchInputs ==
    {[zIndex |-> None, x |-> Some(1), visible |-> None]}
    \cup {[zIndex |-> Some(z), x |-> None, visible |-> None] : z \in ZValues}

RECURSIVE SetToSeq(_)
SetToSeq(S) ==
    IF S = {} THEN <<>>
    ELSE LET m == CHOOSE a \in S : \A b \in S : a <= b IN <<m>> \o SetToSeq(S \ {m})

OverrideInputs ==
    {[labelIndex |-> 0,
      elementOverrides |-> [k \in 1..Len(SetToSeq(DOMAIN ps)) |->
            [elementId |-> SetToSeq(DOMAIN ps)[k], overrides |-> ps[SetToSeq(DOMAIN ps)[k]]]],
      hiddenElementIds |-> SetToSeq(hs),
      additionalElements |-> add]
     : ps \in UNION {[S -> PatchInputs] : S \in SUBSET ElementIds},
       hs \in SUBSET ElementIds,
       add \in {<<>>} \cup {<<[id |-> ExtraId, zIndex |-> z, x |-> 0, visible |-> TRUE]>> : z \in ZValues}}

\* No library call made yet.
NoCall ==
    [op |-> "none", labelIndex |-> 0, elementId |-> 0, overrides |-> NoPatch,
     overridden |-> FALSE, result |-> <<>>]

\* A call with its arguments; of the override record passed in, whether it
\* held a patch or a hide entry for elementId.
Call(op, labelIndex, elementId, overrides, override, result) ==
    [op |-> op, labelIndex |-> labelIndex, elementId |-> elementId,
     overrides |-> overrides,
     overridden |-> isElementOverridden(elementId, override), result |-> result]

NothingSupplied == [id \in ElementIds |-> None]

\* The store's initial view and selection state.
InitUi ==
    /\ viewMode = "TEMPLATE"
    /\ previewPageIndex = 0
    /\ selectedLabelIndex = None
    /\ selectedElementIds = <<>>
    /\ isDraggingElement = FALSE
    /\ elementIdCounter = 0

\* The export dialog closed: { isOpen: false, current: 0, total: 0 }.
ProgressClosed == [isOpen |-> FALSE, current |-> 0, total |-> 0]
\* No generateBulkPDF call made yet.
NoJob == [status |-> "idle", processedLabels |-> 0, effectiveRows |-> <<>>, drawn |-> <<>>]

\* The data store's initial columns (id and name of each).
DefaultColumns ==
    <<[id |-> "id", name |-> "ID"], [id |-> "name", name |-> "Name"],
      [id |-> "description", name |-> "Description"]>>

\* No rows loaded, no export running.
InitSinks ==
    /\ columns = DefaultColumns
    /\ rows = <<>>
    /\ exportProgress = ProgressClosed
    /\ exportJob = NoJob
    /\ cancelClicked = FALSE

\* The history before any tracked set: no past and no future states.  refs
\* is the store's override Map as slot -> object, objects the LabelOverride
\* objects allocated so far; labelOverrides is refs read through objects.
NoHistory == [pastStates |-> <<>>, futureStates |-> <<>>, objects |-> <<>>, refs |-> <<>>]

\* The store's initial template (AVERY_5163), clipboard and history.
InitOther ==
    /\ templateId = "avery-5163"
    /\ clipboard = <<>>
    /\ InitSinks
    /\ temporal = NoHistory

\* ---------------------------------------------------------------- SpecResolve
InitResolve ==
    /\ masterLabel \in MasterInputs
    /\ labelOverrides \in {EmptyMap} \cup {MapSet(EmptyMap, 0, o) : o \in OverrideInputs}
    /\ resolveLog = <<>>
    /\ lastCall = NoCall
    /\ supplied = NothingSupplied
    /\ InitUi
    /\ InitOther

\* getEffectiveElementsForLabel(0)
Resolve ==
    /\ Len(resolveLog) < MaxResolves
    /\ LET out == getEffectiveElements(masterLabel, MapGet(labelOverrides, 0))
       IN /\ resolveLog' = Append(resolveLog, out.result)
          /\ masterLabel' = [masterLabel EXCEPT !.elements = out.masterElements]
    /\ UNCHANGED <<labelOverrides, lastCall, supplied, uiVars, otherVars>>

NextResolve == Resolve

SpecResolve == InitResolve /\ [][NextResolve]_vars

\* --------------------------------------------------------------- SpecOverride
\* The override-management functions applied to the record of slot 0, each
\* result stored back as updateLabelElement and the panels store it
\* (newOverrides.set(labelIndex, newOverride)).
OverrideMasterInputs == {m \in MasterInputs : Len(m.elements) = MaxElems}
\* The element ids the calls name: the first and the last element of the master.
CallIds == {1, MaxElems}

InitOverride ==
    /\ masterLabel \in OverrideMasterInputs
    /\ labelOverrides = EmptyMap
    /\ resolveLog = <<>>
    /\ lastCall = NoCall
    /\ supplied = NothingSupplied
    /\ InitUi
    /\ InitOther

\* What has been supplied for elementId once `overrides` is supplied too: per
\* field, the value of the latest patch that carries the field.
SuppliedAfter(elementId, overrides) ==
    LET old == IF supplied[elementId] = None THEN NoPatch ELSE supplied[elementId][1]
    IN Some([zIndex  |-> IF overrides.zIndex = None THEN old.zIndex ELSE overrides.zIndex,
             x       |-> IF overrides.x = None THEN old.x ELSE overrides.x,
             visible |-> IF overrides.visible = None THEN old.visible ELSE overrides.visible])

CreateElementOverride(elementId, overrides) ==
    /\ labelOverrides' = MapSet(labelOverrides, 0,
            createElementOverride(0, elementId, overrides, MapGet(labelOverrides, 0)))
    /\ lastCall' = Call("createElementOverride", 0, elementId, overrides,
                     MapGet(labelOverrides, 0), <<>>)
    /\ supplied' = [supplied EXCEPT ![elementId] = SuppliedAfter(elementId, overrides)]
    /\ UNCHANGED <<masterLabel, resolveLog, uiVars, otherVars>>

HideElement(elementId) ==
    /\ labelOverrides' = MapSet(labelOverrides, 0,
            hideElement(0, elementId, MapGet(labelOverrides, 0)))
    /\ lastCall' = Call("hideElement", 0, elementId, NoPatch,
                     MapGet(labelOverrides, 0), <<>>)
    /\ UNCHANGED <<masterLabel, resolveLog, supplied, uiVars, otherVars>>

RemoveElementOverride(elementId) ==
    /\ 0 \in DOMAIN labelOverrides
    /\ labelOverrides' = MapSet(labelOverrides, 0,
            removeElementOverride(elementId, labelOverrides[0]))
    /\ lastCall' = Call("removeElementOverride", 0, elementId, NoPatch,
                     MapGet(labelOverrides, 0), <<>>)
    /\ supplied' = [supplied EXCEPT ![elementId] = None]
    /\ UNCHANGED <<masterLabel, resolveLog, uiVars, otherVars>>

ResetElementOverride(elementId) ==
    /\ 0 \in DOMAIN labelOverrides
    /\ labelOverrides' = MapSet(labelOverrides, 0,
            resetElementOverride(elementId, labelOverrides[0]))
    /\ lastCall' = Call("resetElementOverride", 0, elementId, NoPatch,
                     MapGet(labelOverrides, 0), <<>>)
    /\ supplied' = [supplied EXCEPT ![elementId] = None]
    /\ UNCHANGED <<masterLabel, resolveLog, uiVars, otherVars>>

ShowElement(elementId) ==
    /\ 0 \in DOMAIN labelOverrides
    /\ labelOverrides' = MapSet(labelOverrides, 0,
            showElement(elementId, labelOverrides[0]))
    /\ lastCall' = Call("showElement", 0, elementId, NoPatch,
                     MapGet(labelOverrides, 0), <<>>)
    /\ UNCHANGED <<masterLabel, resolveLog, supplied, uiVars, otherVars>>

NextOverride ==
    \/ \E elementId \in CallIds, overrides \in PatchInputs :
           CreateElementOverride(elementId, overrides)
    \/ \E elementId \in CallIds : HideElement(elementId)
    \/ \E elementId \in CallIds : RemoveElementOverride(elementId)
    \/ \E elementId \in CallIds : ResetElementOverride(elementId)
    \/ \E elementId \in CallIds : ShowElement(elementId)

SpecOverride == InitOverride /\ [][NextOverride]_vars

\* --------------------------------------------------------------- SpecAffected
\* getAffectedLabels on a sheet set of MaxSlots slots, then an edit of the
\* queried master element.
\* Masters whose elements all have zIndex 0.
AffectedMasterInputs ==
    {m \in MasterInputs : \A i \in 1..Len(m.elements) : m.elements[i].zIndex = 0}

\* Records with no additional element and at most one entry: a patch or a hide.
AffectedOverrideInputs ==
    {o \in OverrideInputs :
        /\ o.additionalElements = <<>>
        /\ Len(o.elementOverrides) + Len(o.hiddenElementIds) <= 1}

InitAffected ==
    /\ masterLabel \in AffectedMasterInputs
    /\ labelOverrides \in
          UNION {[S -> {[o EXCEPT !.labelIndex = i] : o \in AffectedOverrideInputs, i \in S}]
                 : S \in SUBSET (0..(MaxSlots - 1))}
    /\ \A i \in DOMAIN labelOverrides : labelOverrides[i].labelIndex = i
    /\ resolveLog = <<>>
    /\ lastCall = NoCall
    /\ supplied = NothingSupplied
    /\ InitUi
    /\ InitOther

GetAffectedLabels(elementId) ==
    /\ lastCall.op # "updateMasterElement"
    /\ lastCall' = Call("getAffectedLabels", 0, elementId, NoPatch, None,
                        getAffectedLabels(elementId, MaxSlots, labelOverrides))
    /\ UNCHANGED <<masterLabel, labelOverrides, resolveLog, supplied, uiVars, otherVars>>

\* elements.map(el => el.id === elementId ? { ...el, ...updates } : el)
updateMasterElement(master, elementId, updates) ==
    [master EXCEPT !.elements =
        [i \in 1..Len(@) |-> IF @[i].id = elementId THEN MergeElement(@[i], updates)
                             ELSE @[i]]]

\* The edit of the element that was just queried.
UpdateMasterElement(elementId, updates) ==
    /\ lastCall.op = "getAffectedLabels"
    /\ elementId = lastCall.elementId
    /\ masterLabel' = updateMasterElement(masterLabel, elementId, updates)
    /\ lastCall' = Call("updateMasterElement", 0, elementId, updates, None, <<>>)
    /\ UNCHANGED <<labelOverrides, resolveLog, supplied, uiVars, otherVars>>

NextAffected ==
    \/ \E elementId \in ElementIds : GetAffectedLabels(elementId)
    \/ \E elementId \in ElementIds, updates \in PatchInputs :
           UpdateMasterElement(elementId, updates)

SpecAffected == InitAffected /\ [][NextAffected]_vars

\* ------------------------------------------------- claims on getEffectiveElements
LastResolve == resolveLog[Len(resolveLog)]
IsUnsorted(elements) ==
    \E i, j \in 1..Len(elements) : i < j /\ elements[i].zIndex > elements[j].zIndex

\* C1: calling getEffectiveElements twice in a row on the same master and
\* override (or none) gives structurally equal lists, and no call changes the
\* master (its list, its elements) or the override.
C1_ResolvePure ==
    [][Len(resolveLog') > Len(resolveLog) =>
          /\ masterLabel' = masterLabel
          /\ labelOverrides' = labelOverrides
          /\ (Len(resolveLog) > 0 =>
                Els(resolveLog'[Len(resolveLog')]) = Els(LastResolve))]_vars

\* Two calls were made on a master whose list is not in zIndex order, so the
\* sort had to move elements, once without and once with an override.
C1_Witness ==
    /\ Len(resolveLog) = 2
    /\ IsUnsorted(masterLabel.elements)
    /\ Len(LastResolve) = 2
    /\ 0 \in DOMAIN labelOverrides
    /\ labelOverrides[0].elementOverrides # <<>>

\* C2: every element of the returned list is an object allocated by the call,
\* never the object held by master.elements or override.additionalElements.
C2_ReturnsFreshCopies ==
    \A k \in 1..Len(resolveLog) : \A i \in 1..Len(resolveLog[k]) :
        resolveLog[k][i].obj[1] = "copy"

\* C3: a master element whose id is in hiddenElementIds is not in the resolved
\* list, also when elementOverrides holds a patch for it.
C3_HideWins ==
    \A k \in 1..Len(resolveLog) : \A i \in 1..Len(resolveLog[k]) :
        LET item == resolveLog[k][i]
        IN (item.obj[1] \in {"master", "copy"} /\ 0 \in DOMAIN labelOverrides)
            => ~Includes(labelOverrides[0].hiddenElementIds,
                         masterLabel.elements[item.obj[2]].id)

\* A resolve ran on an override that both hides and patches a master element
\* and leaves another master element in the list.
C3_Witness ==
    /\ Len(resolveLog) >= 1
    /\ 0 \in DOMAIN labelOverrides
    /\ \E i \in 1..Len(masterLabel.elements) :
          /\ Includes(labelOverrides[0].hiddenElementIds, masterLabel.elements[i].id)
          /\ FindElementOverride(labelOverrides[0].elementOverrides,
                                 masterLabel.elements[i].id) # None
    /\ \E i \in 1..Len(LastResolve) : LastResolve[i].obj[1] = "copy"

\* Position at which the loop emitted the item: master elements in list order,
\* then the additional elements in list order.
EmitIndex(obj) ==
    IF obj[1] = "additional" THEN Len(masterLabel.elements) + obj[2] ELSE obj[2]

\* C6: the resolved list ascends by zIndex, items of equal zIndex stay in the
\* order they were emitted (master list order, then additional elements), and
\* a repeated resolve returns the same order.
C6_StableZOrder ==
    \A k \in 1..Len(resolveLog) :
        /\ \A i, j \in 1..Len(resolveLog[k]) : i < j =>
              \/ resolveLog[k][i].el.zIndex < resolveLog[k][j].el.zIndex
              \/ /\ resolveLog[k][i].el.zIndex = resolveLog[k][j].el.zIndex
                 /\ EmitIndex(resolveLog[k][i].obj) < EmitIndex(resolveLog[k][j].obj)
        /\ (k > 1 => resolveLog[k] = resolveLog[k - 1])

\* Resolved twice with two master elements and an additional element that all
\* end with the same zIndex.
C6_Witness ==
    /\ Len(resolveLog) = 2
    /\ Len(LastResolve) = 3
    /\ \A i \in 1..3 : LastResolve[i].el.zIndex = LastResolve[1].el.zIndex
    /\ \E i \in 1..3 : LastResolve[i].obj[1] = "additional"

\* ----------------------------------------------------------------- the store
\* The sheet layout.  A 1 x 2 grid stands for the 5 x 2 grid of AVERY_5163.
\* Lengths are in units of 1/10000 mm, so that 4.7625 mm is 47625.
template ==
    [rows |-> 1, columns |-> 2, labelWidth |-> 1016000, labelHeight |-> 508000,
     horizontalSpacing |-> 31750, verticalSpacing |-> 0,
     offsetTop |-> 127000, offsetLeft |-> 47625]
labelsPerPage == template.rows * template.columns
\* Pages of the data set: Math.ceil(totalRows / labelsPerPage) || 1.
totalPages == 2
\* The absolute slot indices of all pages.
Slots == 0..(totalPages * labelsPerPage - 1)
\* A transform: where the element was created (0) or somewhere else (1).
XValues == {0, 1}
\* Elements generateElementId is asked for in a run.
MaxAdds == 1
\* Patch entries and hidden ids, over all slots, that preview edits create.
MaxEntries == 1

getTotalLabels == template.rows * template.columns

\* x without the spacing between columns, y without the spacing between rows.
getLabelPosition_NoSpacing(tpl, labelIndex) ==
    LET totalLabels == tpl.rows * tpl.columns
    IN IF labelIndex < 0 \/ labelIndex >= totalLabels THEN None
       ELSE LET row == labelIndex \div tpl.columns
                col == labelIndex % tpl.columns
            IN Some([x |-> tpl.offsetLeft + col * tpl.labelWidth,
                     y |-> tpl.offsetTop + row * tpl.labelHeight,
                     row |-> row, col |-> col])
\* null (None) outside the grid of one page, else the position of the slot
\* on the sheet and in the grid.
getLabelPosition(tpl, labelIndex) ==
    LET totalLabels == tpl.rows * tpl.columns
    IN IF labelIndex < 0 \/ labelIndex >= totalLabels THEN None
       ELSE LET row == labelIndex \div tpl.columns
                col == labelIndex % tpl.columns
            IN Some([x |-> tpl.offsetLeft + col * (tpl.labelWidth + tpl.horizontalSpacing),
                     y |-> tpl.offsetTop + row * (tpl.labelHeight + tpl.verticalSpacing),
                     row |-> row, col |-> col])

getEffectiveElementsForLabel(master, overrides, labelIndex) ==
    Els(getEffectiveElements(master, MapGet(overrides, labelIndex)).result)

FindElement(elements, elementId) ==
    LET Is(el) == el.id = elementId
        found == SelectSeq(elements, Is)
    IN IF found = <<>> THEN None ELSE Some(found[1])

MaxOf(S) == CHOOSE m \in S : \A n \in S : n <= m

\* zIndex: elements.length, which is on top only while the zIndex values in
\* use are 0..length-1.
addElementToMaster_ByLength(master, element) ==
    [master EXCEPT !.elements = Append(@, [element EXCEPT !.zIndex = Len(master.elements)])]
addElementToMaster(master, element) ==
    LET maxZIndex == IF Len(master.elements) > 0
                     THEN MaxOf({master.elements[i].zIndex : i \in 1..Len(master.elements)}
                                \cup {-1})
                     ELSE -1
    IN [master EXCEPT !.elements = Append(@, [element EXCEPT !.zIndex = maxZIndex + 1])]

removeMasterElement(master, elementId) ==
    LET Keep(el) == el.id # elementId
    IN [master EXCEPT !.elements = SelectSeq(@, Keep)]

setLabelOverride(overrides, labelIndex, override) == MapSet(overrides, labelIndex, override)

\* The override map after updateLabelElement.
updateLabelElement(master, overrides, labelIndex, elementId, updates) ==
    LET existingOverride == MapGet(overrides, labelIndex)
        isInMaster == FindElement(master.elements, elementId) # None
        isInAdditional == /\ existingOverride # None
                          /\ FindElement(existingOverride[1].additionalElements,
                                         elementId) # None
    IN IF ~isInMaster /\ isInAdditional
       THEN MapSet(overrides, labelIndex,
                [existingOverride[1] EXCEPT !.additionalElements =
                    [i \in 1..Len(@) |-> IF @[i].id = elementId
                                         THEN MergeElement(@[i], updates) ELSE @[i]]])
       ELSE MapSet(overrides, labelIndex,
                createElementOverride(labelIndex, elementId, updates, existingOverride))

\* What the canvas draws for one slot: the override indication and the
\* visible resolved elements, in drawing order.
renderLabel(master, overrides, selected, overrideLabelIndex) ==
    LET Visible(el) == el.visible
    IN [isSelected  |-> selected = Some(overrideLabelIndex),
        hasOverride |-> overrideLabelIndex \in DOMAIN overrides,
        elements    |-> SelectSeq(getEffectiveElementsForLabel(master, overrides,
                                                               overrideLabelIndex),
                                  Visible)]

\* What the canvas draws in template mode: the single centred label.
renderTemplateView(master, overrides, selected) ==
    LET Visible(el) == el.visible
    IN [isSelected  |-> selected = Some(0),
        hasOverride |-> 0 \in DOMAIN overrides,
        elements    |-> SelectSeq(getEffectiveElementsForLabel(master, overrides, 0),
                                  Visible)]

\* What the canvas draws in preview mode: the labels of the page shown.
renderPreviewView(master, overrides, selected, page) ==
    [i \in 0..(getTotalLabels - 1) |->
        renderLabel(master, overrides, selected, page * labelsPerPage + i)]

EntryCount(overrides) ==
    Cardinality(UNION {{<<k, i>> : i \in 1..(Len(overrides[k].elementOverrides)
                                             + Len(overrides[k].hiddenElementIds))}
                       : k \in DOMAIN overrides})

\* ------------------------------------------------- the handlers on the store
Init ==
    /\ masterLabel = [elements |-> <<>>]
    /\ labelOverrides = EmptyMap
    /\ resolveLog = <<>>
    /\ lastCall = NoCall
    /\ supplied = NothingSupplied
    /\ InitUi
    /\ InitOther

\* The element the property panel and the transform controls work on.
SelectedElement ==
    IF viewMode = "PREVIEW" /\ selectedLabelIndex # None
    THEN FindElement(getEffectiveElementsForLabel(masterLabel, labelOverrides,
                                                  selectedLabelIndex[1]),
                     selectedElementIds[1])
    ELSE FindElement(masterLabel.elements, selectedElementIds[1])

\* ElementTools: create an element and add it to the master.
AddElement ==
    /\ elementIdCounter < MaxAdds
    /\ elementIdCounter' = elementIdCounter + 1
    /\ masterLabel' = addElementToMaster(masterLabel,
            [id |-> elementIdCounter + 1, zIndex |-> 0, x |-> 0, visible |-> TRUE])
    /\ UNCHANGED <<labelOverrides, libVars, otherVars, viewMode, previewPageIndex,
                   selectedLabelIndex, selectedElementIds, isDraggingElement>>

\* The View menu: switch to the other mode.
SetViewMode(mode) ==
    /\ mode # viewMode
    /\ viewMode' = mode
    /\ UNCHANGED <<masterLabel, labelOverrides, libVars, otherVars, previewPageIndex,
                   selectedLabelIndex, selectedElementIds, isDraggingElement,
                   elementIdCounter>>

\* setPreviewPageIndex
setPreviewPageIndex(index) ==
    /\ previewPageIndex' = IF index < 0 THEN 0 ELSE index
    /\ selectedLabelIndex' = None
    /\ selectedElementIds' = <<>>
    /\ UNCHANGED <<masterLabel, labelOverrides, libVars, otherVars, viewMode, isDraggingElement,
                   elementIdCounter>>

HandlePreviousPage ==
    /\ viewMode = "PREVIEW"
    /\ previewPageIndex > 0
    /\ setPreviewPageIndex(previewPageIndex - 1)

HandleNextPage ==
    /\ viewMode = "PREVIEW"
    /\ previewPageIndex < totalPages - 1
    /\ setPreviewPageIndex(previewPageIndex + 1)

\* A click at the on-page label i (None: outside every label) that hits the
\* visible element clickedElementId of that label (None: hits no element).
HandleCanvasClick(i, clickedElementId) ==
    LET clickedLabelIndex ==
            IF i = None THEN None
            ELSE IF viewMode = "TEMPLATE" THEN Some(0)
            ELSE Some(previewPageIndex * labelsPerPage + i[1])
    IN /\ viewMode = "TEMPLATE" => i \in {None, Some(0)}
       /\ clickedElementId # None =>
             /\ clickedLabelIndex # None
             /\ LET el == FindElement(
                             getEffectiveElementsForLabel(masterLabel, labelOverrides,
                                                          clickedLabelIndex[1]),
                             clickedElementId[1])
                IN el # None /\ el[1].visible
       /\ selectedLabelIndex' = IF clickedLabelIndex # None THEN clickedLabelIndex
                                ELSE selectedLabelIndex
       /\ selectedElementIds' = IF clickedElementId # None THEN <<clickedElementId[1]>>
                                ELSE <<>>
       /\ UNCHANGED <<masterLabel, labelOverrides, libVars, otherVars, viewMode, previewPageIndex,
                      isDraggingElement, elementIdCounter>>

\* A left press that passes the hit test on the selected element.  In preview
\* mode the test needs the grid position of selectedLabelIndex.
HandleMouseDown ==
    /\ Len(selectedElementIds) = 1
    /\ FindElement(masterLabel.elements, selectedElementIds[1]) # None
    /\ viewMode = "PREVIEW" =>
          /\ selectedLabelIndex # None
          /\ getLabelPosition(template, selectedLabelIndex[1]) # None
    /\ isDraggingElement' = TRUE
    /\ UNCHANGED <<masterLabel, labelOverrides, libVars, otherVars, viewMode, previewPageIndex,
                   selectedLabelIndex, selectedElementIds, elementIdCounter>>

\* A move of the pointer during a drag, to position x.
HandleMouseMove(x) ==
    /\ isDraggingElement
    /\ Len(selectedElementIds) = 1
    /\ FindElement(masterLabel.elements, selectedElementIds[1]) # None
    /\ masterLabel' = updateMasterElement(masterLabel, selectedElementIds[1],
                                          [NoPatch EXCEPT !.x = Some(x)])
    /\ UNCHANGED <<labelOverrides, libVars, otherVars, uiVars>>

HandleMouseUp ==
    /\ isDraggingElement
    /\ isDraggingElement' = FALSE
    /\ UNCHANGED <<masterLabel, labelOverrides, libVars, otherVars, viewMode, previewPageIndex,
                   selectedLabelIndex, selectedElementIds, elementIdCounter>>

\* A drag of a resize or rotate handle of the transform controls, which are
\* shown for a single selected element that is found and, in preview mode,
\* when the grid position of the selected slot (slot 0 if none) is found.
TransformHandleUpdate(x) ==
    /\ Len(selectedElementIds) = 1
    /\ SelectedElement # None
    /\ viewMode = "PREVIEW" =>
          getLabelPosition(template, IF selectedLabelIndex # None
                                     THEN selectedLabelIndex[1] ELSE 0) # None
    /\ IF viewMode = "PREVIEW" /\ selectedLabelIndex # None
       THEN /\ labelOverrides' = updateLabelElement(masterLabel, labelOverrides,
                    selectedLabelIndex[1], SelectedElement[1].id,
                    [NoPatch EXCEPT !.x = Some(x)])
            /\ EntryCount(labelOverrides') <= MaxEntries
            /\ UNCHANGED masterLabel
       ELSE /\ masterLabel' = updateMasterElement(masterLabel, SelectedElement[1].id,
                                                  [NoPatch EXCEPT !.x = Some(x)])
            /\ UNCHANGED labelOverrides
    /\ UNCHANGED <<libVars, otherVars, uiVars>>

\* PropertyPanel.handleUpdate
PanelHandleUpdate(x) ==
    /\ Len(selectedElementIds) > 0
    /\ SelectedElement # None
    /\ IF viewMode = "PREVIEW" /\ selectedLabelIndex # None
       THEN LET currentPageStartIndex == previewPageIndex * labelsPerPage
                currentPageEndIndex == currentPageStartIndex + labelsPerPage - 1
            IN IF /\ selectedLabelIndex[1] >= currentPageStartIndex
                  /\ selectedLabelIndex[1] <= currentPageEndIndex
               THEN /\ labelOverrides' = updateLabelElement(masterLabel, labelOverrides,
                            selectedLabelIndex[1], SelectedElement[1].id,
                            [NoPatch EXCEPT !.x = Some(x)])
                    /\ EntryCount(labelOverrides') <= MaxEntries
                    /\ UNCHANGED <<masterLabel, selectedElementIds>>
               ELSE /\ selectedElementIds' = <<>>
                    /\ UNCHANGED <<masterLabel, labelOverrides>>
       ELSE /\ masterLabel' = updateMasterElement(masterLabel, SelectedElement[1].id,
                                                  [NoPatch EXCEPT !.x = Some(x)])
            /\ UNCHANGED <<labelOverrides, selectedElementIds>>
    /\ UNCHANGED <<libVars, otherVars, viewMode, previewPageIndex, selectedLabelIndex,
                   isDraggingElement, elementIdCounter>>

\* PropertyPanel.handleDelete (the delete button)
PanelHandleDelete ==
    /\ Len(selectedElementIds) > 0
    /\ SelectedElement # None
    /\ IF viewMode = "PREVIEW" /\ selectedLabelIndex # None
       THEN /\ labelOverrides' = setLabelOverride(labelOverrides, selectedLabelIndex[1],
                    hideElement(selectedLabelIndex[1], SelectedElement[1].id,
                                MapGet(labelOverrides, selectedLabelIndex[1])))
            /\ EntryCount(labelOverrides') <= MaxEntries
            /\ UNCHANGED masterLabel
       ELSE /\ masterLabel' = removeMasterElement(masterLabel, SelectedElement[1].id)
            /\ UNCHANGED labelOverrides
    /\ selectedElementIds' = <<>>
    /\ UNCHANGED <<libVars, otherVars, viewMode, previewPageIndex, selectedLabelIndex,
                   isDraggingElement, elementIdCounter>>

RECURSIVE RemoveAll(_, _)
RemoveAll(master, ids) ==
    IF ids = <<>> THEN master
    ELSE RemoveAll(removeMasterElement(master, ids[Len(ids)]),
                   SubSeq(ids, 1, Len(ids) - 1))

\* The Delete or Backspace key
KeyDelete ==
    /\ Len(selectedElementIds) > 0
    /\ masterLabel' = RemoveAll(masterLabel, selectedElementIds)
    /\ selectedElementIds' = <<>>
    /\ UNCHANGED <<labelOverrides, libVars, otherVars, viewMode, previewPageIndex,
                   selectedLabelIndex, isDraggingElement, elementIdCounter>>

\* An arrow key: the selected master element is nudged to position x.
KeyArrow(x) ==
    /\ Len(selectedElementIds) = 1
    /\ FindElement(masterLabel.elements, selectedElementIds[1]) # None
    /\ x # FindElement(masterLabel.elements, selectedElementIds[1])[1].x
    /\ masterLabel' = updateMasterElement(masterLabel, selectedElementIds[1],
                                          [NoPatch EXCEPT !.x = Some(x)])
    /\ UNCHANGED <<labelOverrides, libVars, otherVars, uiVars>>

\* The Escape key: clearSelection
KeyEscape ==
    /\ selectedElementIds # <<>>
    /\ selectedElementIds' = <<>>
    /\ UNCHANGED <<masterLabel, labelOverrides, libVars, otherVars, viewMode, previewPageIndex,
                   selectedLabelIndex, isDraggingElement, elementIdCounter>>

\* An override record of a file that carries one label-specific element.  The
\* file's records are stored as they are read: nothing compares the ids of
\* additionalElements with the ids of the master.
FileAdditionalRecord(labelIndex, id) ==
    [EmptyOverride(labelIndex) EXCEPT !.additionalElements =
        <<[id |-> id, zIndex |-> 0, x |-> 1, visible |-> TRUE]>>]

\* The designs a file may hold: a master of MaxAdds elements created earlier,
\* and no override record, one record without entries, or one record with a
\* label-specific element whose id is any id the file's author wrote.
DesignInputs ==
    {[masterLabel |-> [elements |-> [k \in 1..n |->
                          [id |-> k, zIndex |-> k - 1, x |-> 0, visible |-> TRUE]]],
      labelOverrides |-> ovs] :
        n \in {MaxAdds},
        ovs \in {EmptyMap} \cup {MapSet(EmptyMap, k, EmptyOverride(k)) : k \in Slots}
                 \cup {MapSet(EmptyMap, 0, FileAdditionalRecord(0, id)) :
                           id \in {ExtraId, 1}}}

\* performLoad / performLoadDesign: setTemplate, setMasterLabel,
\* clearAllOverrides, then setLabelOverride for each record of the file.
LoadDesign(design) ==
    /\ masterLabel' = design.masterLabel
    /\ labelOverrides' = design.labelOverrides
    /\ elementIdCounter' = MaxOf({elementIdCounter, Len(design.masterLabel.elements)})
    /\ UNCHANGED <<libVars, otherVars, viewMode, previewPageIndex, selectedLabelIndex,
                   selectedElementIds, isDraggingElement>>

Next ==
    \/ AddElement
    \/ \E mode \in {"TEMPLATE", "PREVIEW"} : SetViewMode(mode)
    \/ HandlePreviousPage
    \/ HandleNextPage
    \/ \E i \in {None} \cup {Some(n) : n \in 0..(getTotalLabels - 1)},
          clickedElementId \in {None} \cup {Some(id) : id \in 1..MaxAdds} :
           HandleCanvasClick(i, clickedElementId)
    \/ HandleMouseDown
    \/ \E x \in XValues : HandleMouseMove(x)
    \/ HandleMouseUp
    \/ \E x \in XValues : TransformHandleUpdate(x)
    \/ \E x \in XValues : PanelHandleUpdate(x)
    \/ PanelHandleDelete
    \/ KeyDelete
    \/ \E x \in XValues : KeyArrow(x)
    \/ KeyEscape
    \/ \E design \in DesignInputs : LoadDesign(design)

Spec == Init /\ [][Next]_vars

\* ------------------------------------------------------ template selection
\* The ids of PREDEFINED_TEMPLATES, the templates the selector offers.
TemplateIds ==
    {"avery-5160", "avery-5161", "avery-5163", "avery-5164", "avery-5167",
     "avery-8160", "avery-8163", "avery-8460"}

\* set({ template }): the template alone, the override map left as it is.
setTemplate_TemplateOnly(t) == [template |-> t, labelOverrides |-> labelOverrides]
\* set({ template, labelOverrides: new Map() }): the fields one state change
\* of the store writes.
setTemplate(t) == [template |-> t, labelOverrides |-> EmptyMap]

removeLabelOverride(overrides, labelIndex) == MapDelete(overrides, labelIndex)

clearAllOverrides == EmptyMap

\* The records callers store for a slot: an empty one, one that hides the
\* first element, one that patches it.
StoredRecordInputs(labelIndex) ==
    {EmptyOverride(labelIndex), hideElement(labelIndex, 1, None)}
    \cup {createElementOverride(labelIndex, 1, p, None) : p \in PatchInputs}

InitTemplate ==
    /\ masterLabel \in OverrideMasterInputs
    /\ \A i \in 1..Len(masterLabel.elements) : masterLabel.elements[i].zIndex = i - 1
    /\ labelOverrides = EmptyMap
    /\ resolveLog = <<>>
    /\ lastCall = NoCall
    /\ supplied = NothingSupplied
    /\ InitUi
    /\ InitOther

\* TemplateSelector.handleSelectTemplate: setTemplate(newTemplate).  The call
\* record keeps the map the store held when the call was made.
SetTemplate(t) ==
    /\ templateId' = setTemplate(t).template
    /\ labelOverrides' = setTemplate(t).labelOverrides
    /\ lastCall' = [NoCall EXCEPT !.op = "setTemplate", !.result = labelOverrides]
    /\ UNCHANGED <<masterLabel, resolveLog, supplied, uiVars, clipboard, sinkVars,
                   temporal>>

SetLabelOverride(labelIndex, override) ==
    /\ labelOverrides' = setLabelOverride(labelOverrides, labelIndex, override)
    /\ lastCall' = [NoCall EXCEPT !.op = "setLabelOverride", !.labelIndex = labelIndex]
    /\ UNCHANGED <<masterLabel, resolveLog, supplied, uiVars, otherVars>>

RemoveLabelOverride(labelIndex) ==
    /\ labelOverrides' = removeLabelOverride(labelOverrides, labelIndex)
    /\ lastCall' = [NoCall EXCEPT !.op = "removeLabelOverride", !.labelIndex = labelIndex]
    /\ UNCHANGED <<masterLabel, resolveLog, supplied, uiVars, otherVars>>

ClearAllOverrides ==
    /\ labelOverrides' = clearAllOverrides
    /\ lastCall' = [NoCall EXCEPT !.op = "clearAllOverrides"]
    /\ UNCHANGED <<masterLabel, resolveLog, supplied, uiVars, otherVars>>

NextTemplate ==
    \/ \E t \in TemplateIds : SetTemplate(t)
    \/ \E k \in 0..(MaxSlots - 1) :
          \E override \in StoredRecordInputs(k) : SetLabelOverride(k, override)
    \/ \E k \in 0..(MaxSlots - 1) : RemoveLabelOverride(k)
    \/ ClearAllOverrides

SpecTemplate == InitTemplate /\ [][NextTemplate]_vars

\* ----------------------------------------- z-order, clipboard and duplicate
\* The zIndex values of the masters the operations are applied to: negative,
\* equal (by repetition) and non-contiguous ones.
ZOrderValues == {-1, 0, MaxZ + 1}

\* Masters of up to MaxElems + 1 elements with ids 1..n in list order; at most
\* one element has visible = false.
ZOrderMasterInputs ==
    UNION {{[elements |-> [k \in 1..n |->
                  [id |-> k, zIndex |-> zs[k], x |-> 0, visible |-> (k # inv)]]]
            : zs \in [1..n -> ZOrderValues], inv \in 0..n} : n \in 0..(MaxElems + 1)}

MinOf(S) == CHOOSE m \in S : \A n \in S : m <= n

ZIndexes(elements) == {elements[i].zIndex : i \in 1..Len(elements)}

\* elements.map(el => el.id === elementId ? { ...el, zIndex } : el)
WithZIndex(elements, elementId, zIndex) ==
    [i \in 1..Len(elements) |->
        IF elements[i].id = elementId THEN [elements[i] EXCEPT !.zIndex = zIndex]
        ELSE elements[i]]

\* zIndex: maxZIndex, level with the topmost element instead of above it.
bringToFront_ToMax(master, elementId) ==
    LET maxZIndex == MaxOf(ZIndexes(master.elements) \cup {-1})
    IN [master EXCEPT !.elements = WithZIndex(@, elementId, maxZIndex)]
bringToFront(master, elementId) ==
    LET maxZIndex == MaxOf(ZIndexes(master.elements) \cup {-1})
    IN [master EXCEPT !.elements = WithZIndex(@, elementId, maxZIndex + 1)]

sendToBack(master, elementId) ==
    LET minZIndex == MinOf(ZIndexes(master.elements) \cup {0})
    IN [master EXCEPT !.elements = WithZIndex(@, elementId, minZIndex - 1)]

\* elements.filter(keep).sort(...)[0] for an ascending (dir = 1) or descending
\* (dir = -1) stable sort on zIndex: of the kept elements with the least
\* (greatest) zIndex, the first in list order.  None when nothing is kept.
FirstByZIndex(elements, kept, dir) ==
    IF kept = {} THEN None
    ELSE LET best == IF dir = 1 THEN MinOf({elements[i].zIndex : i \in kept})
                     ELSE MaxOf({elements[i].zIndex : i \in kept})
             at == MinOf({i \in kept : elements[i].zIndex = best})
         IN Some(elements[at])

\* The two zIndex values swapped between elementId and other.
SwapZIndex(elements, elementId, other, tempZIndex) ==
    [i \in 1..Len(elements) |->
        IF elements[i].id = elementId THEN [elements[i] EXCEPT !.zIndex = other.zIndex]
        ELSE IF elements[i].id = other.id THEN [elements[i] EXCEPT !.zIndex = tempZIndex]
        ELSE elements[i]]

bringForward(master, elementId) ==
    LET elements == master.elements
        currentElement == FindElement(elements, elementId)
    IN IF currentElement = None THEN master
       ELSE LET nextElement ==
                    FirstByZIndex(elements,
                        {i \in 1..Len(elements) :
                            elements[i].zIndex > currentElement[1].zIndex}, 1)
            IN IF nextElement # None
               THEN [master EXCEPT !.elements =
                        SwapZIndex(elements, elementId, nextElement[1],
                                   currentElement[1].zIndex)]
               ELSE master

sendBackward(master, elementId) ==
    LET elements == master.elements
        currentElement == FindElement(elements, elementId)
    IN IF currentElement = None THEN master
       ELSE LET prevElement ==
                    FirstByZIndex(elements,
                        {i \in 1..Len(elements) :
                            elements[i].zIndex < currentElement[1].zIndex}, -1)
            IN IF prevElement # None
               THEN [master EXCEPT !.elements =
                        SwapZIndex(elements, elementId, prevElement[1],
                                   currentElement[1].zIndex)]
               ELSE master

\* elementIds.indexOf(id): the 0-based position of the first occurrence, -1
\* when there is none.
IndexOf(elementIds, id) ==
    IF Includes(elementIds, id)
    THEN MinOf({i \in 1..Len(elementIds) : elementIds[i] = id}) - 1
    ELSE -1

\* Every element renumbered by its position in the master list: the listed
\* ones are not told apart from the others.
reorderElements_RenumberAll(master, elementIds) ==
    LET els == master.elements
    IN [master EXCEPT !.elements =
        [i \in 1..Len(els) |->
            IF IndexOf(elementIds, els[i].id) = -1 THEN [els[i] EXCEPT !.zIndex = i - 1]
            ELSE [els[i] EXCEPT !.zIndex = IndexOf(elementIds, els[i].id)]]]
reorderElements(master, elementIds) ==
    LET els == master.elements
    IN [master EXCEPT !.elements =
        [i \in 1..Len(els) |->
            IF IndexOf(elementIds, els[i].id) = -1 THEN els[i]
            ELSE [els[i] EXCEPT !.zIndex = IndexOf(elementIds, els[i].id)]]]

\* The offset a pasted or duplicated element gets (5mm right and down).
offsetX == 5

\* state.masterLabel.elements.filter(el => elementIds.includes(el.id))
ElementsNamed(master, elementIds) ==
    LET Named(el) == Includes(elementIds, el.id)
    IN SelectSeq(master.elements, Named)

\* The clipboard after copyElements: clones with the ids counter+1, ...
copyElements(master, elementIds, counter) ==
    LET elementsToCopy == ElementsNamed(master, elementIds)
    IN [i \in 1..Len(elementsToCopy) |-> [elementsToCopy[i] EXCEPT !.id = counter + i]]

\* maxZIndex of pasteElements and duplicateElements.
MaxZIndexOrMinusOne(master) ==
    IF Len(master.elements) > 0 THEN MaxOf(ZIndexes(master.elements) \cup {-1}) ELSE -1

\* The elements pasteElements / duplicateElements create from `source`.
Placed(master, source, counter) ==
    [index \in 1..Len(source) |->
        [source[index] EXCEPT !.id = counter + index,
                              !.zIndex = MaxZIndexOrMinusOne(master) + 1 + (index - 1),
                              !.x = @ + offsetX]]

\* The master after pasteElements; unchanged on an empty clipboard.
pasteElements(master, clip, counter) ==
    IF Len(clip) = 0 THEN master
    ELSE [master EXCEPT !.elements = @ \o Placed(master, clip, counter)]

\* The master after duplicateElements; unchanged when no id names an element.
duplicateElements(master, elementIds, counter) ==
    LET elementsToDuplicate == ElementsNamed(master, elementIds)
    IN IF Len(elementsToDuplicate) = 0 THEN master
       ELSE [master EXCEPT !.elements = @ \o Placed(master, elementsToDuplicate, counter)]

\* The lists of distinct ids of a master's elements, full and partial.
IdListInputs(master) ==
    LET n == Len(master.elements)
    IN UNION {{s \in [1..k -> 1..n] : \A i, j \in 1..k : i # j => s[i] # s[j]}
              : k \in 0..n}

\* The id sets a copy or duplicate names, as ascending lists.
IdSetInputs(master) ==
    {SetToSeq(S) : S \in SUBSET (1..Len(master.elements))}

\* What a call record keeps of the state the operation was applied to.
Before(elementIds) ==
    [master |-> masterLabel, elementIds |-> elementIds, clipboard |-> clipboard]

ZCall(op, elementId, elementIds) ==
    [NoCall EXCEPT !.op = op, !.elementId = elementId, !.result = Before(elementIds)]

InitZOrder ==
    /\ masterLabel \in ZOrderMasterInputs
    /\ labelOverrides = EmptyMap
    /\ resolveLog = <<>>
    /\ lastCall = NoCall
    /\ supplied = NothingSupplied
    /\ viewMode = "TEMPLATE"
    /\ previewPageIndex = 0
    /\ selectedLabelIndex = None
    /\ selectedElementIds = <<>>
    /\ isDraggingElement = FALSE
    /\ elementIdCounter = Len(masterLabel.elements)
    /\ InitOther

\* One operation is applied to each master drawn (a paste follows a copy).
BringToFront(elementId) ==
    /\ lastCall.op = "none"
    /\ masterLabel' = bringToFront(masterLabel, elementId)
    /\ lastCall' = ZCall("bringToFront", elementId, <<>>)
    /\ UNCHANGED <<labelOverrides, resolveLog, supplied, uiVars, otherVars>>

SendToBack(elementId) ==
    /\ lastCall.op = "none"
    /\ masterLabel' = sendToBack(masterLabel, elementId)
    /\ lastCall' = ZCall("sendToBack", elementId, <<>>)
    /\ UNCHANGED <<labelOverrides, resolveLog, supplied, uiVars, otherVars>>

BringForward(elementId) ==
    /\ lastCall.op = "none"
    /\ masterLabel' = bringForward(masterLabel, elementId)
    /\ lastCall' = ZCall("bringForward", elementId, <<>>)
    /\ UNCHANGED <<labelOverrides, resolveLog, supplied, uiVars, otherVars>>

SendBackward(elementId) ==
    /\ lastCall.op = "none"
    /\ masterLabel' = sendBackward(masterLabel, elementId)
    /\ lastCall' = ZCall("sendBackward", elementId, <<>>)
    /\ UNCHANGED <<labelOverrides, resolveLog, supplied, uiVars, otherVars>>

ReorderElements(elementIds) ==
    /\ lastCall.op = "none"
    /\ masterLabel' = reorderElements(masterLabel, elementIds)
    /\ lastCall' = ZCall("reorderElements", 0, elementIds)
    /\ UNCHANGED <<labelOverrides, resolveLog, supplied, uiVars, otherVars>>

\* ElementTools on a master that already has elements.
AddElementToMaster ==
    /\ lastCall.op = "none"
    /\ masterLabel' = addElementToMaster(masterLabel,
            [id |-> elementIdCounter + 1, zIndex |-> 0, x |-> 0, visible |-> TRUE])
    /\ elementIdCounter' = elementIdCounter + 1
    /\ lastCall' = ZCall("addElementToMaster", elementIdCounter + 1, <<>>)
    /\ UNCHANGED <<labelOverrides, resolveLog, supplied, viewMode, previewPageIndex,
                   selectedLabelIndex, selectedElementIds, isDraggingElement, otherVars>>

CopyElements(elementIds) ==
    /\ lastCall.op = "none"
    /\ clipboard' = copyElements(masterLabel, elementIds, elementIdCounter)
    /\ elementIdCounter' = elementIdCounter + Len(clipboard')
    /\ lastCall' = ZCall("copyElements", 0, elementIds)
    /\ UNCHANGED <<masterLabel, labelOverrides, resolveLog, supplied, viewMode,
                   previewPageIndex, selectedLabelIndex, selectedElementIds,
                   isDraggingElement, templateId, sinkVars, temporal>>

PasteElements ==
    /\ lastCall.op = "copyElements"
    /\ masterLabel' = pasteElements(masterLabel, clipboard, elementIdCounter)
    /\ IF Len(clipboard) = 0
       THEN UNCHANGED <<selectedElementIds, elementIdCounter>>
       ELSE /\ selectedElementIds' = [i \in 1..Len(clipboard) |-> elementIdCounter + i]
            /\ elementIdCounter' = elementIdCounter + Len(clipboard)
    /\ lastCall' = ZCall("pasteElements", 0, <<>>)
    /\ UNCHANGED <<labelOverrides, resolveLog, supplied, viewMode, previewPageIndex,
                   selectedLabelIndex, isDraggingElement, otherVars>>

DuplicateElements(elementIds) ==
    /\ lastCall.op = "none"
    /\ masterLabel' = duplicateElements(masterLabel, elementIds, elementIdCounter)
    /\ LET created == Len(masterLabel'.elements) - Len(masterLabel.elements)
       IN IF created = 0
          THEN UNCHANGED <<selectedElementIds, elementIdCounter>>
          ELSE /\ selectedElementIds' = [i \in 1..created |-> elementIdCounter + i]
               /\ elementIdCounter' = elementIdCounter + created
    /\ lastCall' = ZCall("duplicateElements", 0, elementIds)
    /\ UNCHANGED <<labelOverrides, resolveLog, supplied, viewMode, previewPageIndex,
                   selectedLabelIndex, isDraggingElement, otherVars>>

\* The arguments of the one call made on the master drawn: none once a call
\* has been made.
FirstCallInputs(S) == IF lastCall.op = "none" THEN S ELSE {}

\* LayersPanel: [...masterLabel.elements].sort((a, b) => b.zIndex - a.zIndex),
\* topmost first; the sort is stable.
InsertDescending(sorted, el) ==
    LET before == {k \in 0..Len(sorted) : \A j \in 1..k : sorted[j].zIndex >= el.zIndex}
        pos == CHOOSE k \in before : \A j \in before : j <= k
    IN SubSeq(sorted, 1, pos) \o <<el>> \o SubSeq(sorted, pos + 1, Len(sorted))

RECURSIVE sortedElements(_)
sortedElements(elements) ==
    IF elements = <<>> THEN <<>>
    ELSE InsertDescending(sortedElements(SubSeq(elements, 1, Len(elements) - 1)),
                          elements[Len(elements)])

\* newOrder.splice(draggedIndex, 1) and newOrder.splice(dropIndex, 0, dragged),
\* with positions counted from 1.
MoveTo(order, draggedIndex, dropIndex) ==
    LET removed == SubSeq(order, 1, draggedIndex - 1)
                     \o SubSeq(order, draggedIndex + 1, Len(order))
    IN SubSeq(removed, 1, dropIndex - 1) \o <<order[draggedIndex]>>
         \o SubSeq(removed, dropIndex, Len(removed))

\* LayersPanel.handleDrop: the dragged row is dropped on the row of
\* dropElementId; the record keeps the panel's new order.
LayersHandleDrop(draggedElementId, dropElementId) ==
    /\ lastCall.op = "none"
    /\ draggedElementId # dropElementId
    /\ LET sorted == sortedElements(masterLabel.elements)
           ids == [i \in 1..Len(sorted) |-> sorted[i].id]
           draggedIndex == CHOOSE i \in 1..Len(ids) : ids[i] = draggedElementId
           dropIndex == CHOOSE i \in 1..Len(ids) : ids[i] = dropElementId
           elementIds == MoveTo(ids, draggedIndex, dropIndex)
       IN /\ masterLabel' = reorderElements(masterLabel, elementIds)
          /\ lastCall' = ZCall("handleDrop", draggedElementId, elementIds)
    /\ UNCHANGED <<labelOverrides, resolveLog, supplied, uiVars, otherVars>>

NextZOrder ==
    \/ \E id \in FirstCallInputs(1..Len(masterLabel.elements)) : BringToFront(id)
    \/ \E id \in FirstCallInputs(1..Len(masterLabel.elements)) : SendToBack(id)
    \/ \E id \in FirstCallInputs(1..Len(masterLabel.elements)) : BringForward(id)
    \/ \E id \in FirstCallInputs(1..Len(masterLabel.elements)) : SendBackward(id)
    \/ \E elementIds \in FirstCallInputs(IdListInputs(masterLabel)) :
          ReorderElements(elementIds)
    \/ AddElementToMaster
    \/ \E elementIds \in FirstCallInputs(IdSetInputs(masterLabel)) :
          CopyElements(elementIds)
    \/ PasteElements
    \/ \E elementIds \in FirstCallInputs(IdSetInputs(masterLabel)) :
          DuplicateElements(elementIds)
    \/ \E draggedElementId, dropElementId \in
             FirstCallInputs({masterLabel.elements[i].id : i \in 1..Len(masterLabel.elements)}) :
          LayersHandleDrop(draggedElementId, dropElementId)

SpecZOrder == InitZOrder /\ [][NextZOrder]_vars

\* ------------------------------------------------------------- bulk export
\* Data rows of an export.
MaxRows == 3

\* Masters to export: those of MasterInputs, and the same with the first
\* element's visible set to false.
ExportMasterInputs ==
    MasterInputs
    \cup {[m EXCEPT !.elements[1].visible = FALSE] : m \in {mi \in MasterInputs : Len(mi.elements) > 0}}

\* Override maps at export time: none, or one slot with a record that hides
\* the first element, patches it, or adds a label-specific element.
ExportOverrideInputs ==
    {EmptyMap}
    \cup UNION {{MapSet(EmptyMap, k, hideElement(k, 1, None)),
                 MapSet(EmptyMap, k,
                        createElementOverride(k, 1, [NoPatch EXCEPT !.x = Some(1)], None)),
                 MapSet(EmptyMap, k, FileAdditionalRecord(k, ExtraId))}
                : k \in 0..(MaxSlots - 1)}

\* Data sets of n rows; no row is selected (selectedRowIds.size = 0).
RowInputs == {[k \in 1..n |-> [id |-> k]] : n \in 0..MaxRows}

\* renderLabelToContext: the elements drawn for one label, in drawing order.
renderLabelToContext(master, rowData) ==
    LET Visible(el) == el.visible
    IN SelectSeq(master.elements, Visible)

InitExport ==
    /\ masterLabel \in ExportMasterInputs
    /\ labelOverrides \in ExportOverrideInputs
    /\ resolveLog = <<>>
    /\ lastCall = NoCall
    /\ supplied = NothingSupplied
    /\ InitUi
    /\ templateId = "avery-5163"
    /\ clipboard = <<>>
    /\ columns = DefaultColumns
    /\ rows \in RowInputs
    /\ exportProgress = ProgressClosed
    /\ exportJob = NoJob
    /\ cancelClicked = FALSE
    /\ temporal = NoHistory

\* Toolbar.handleExport up to the first await inside generateBulkPDF: the
\* dialog opens and the rows to export are fixed (one demo row when there is
\* no data).
HandleExport ==
    /\ exportJob.status = "idle"
    /\ LET totalLabels == IF Len(rows) = 0 THEN 1 ELSE Len(rows)
       IN exportProgress' = [isOpen |-> TRUE, current |-> 0, total |-> totalLabels]
    /\ exportJob' = [status |-> "running", processedLabels |-> 0,
                     effectiveRows |-> IF Len(rows) = 0 THEN <<[id |-> "demo"]>> ELSE rows,
                     drawn |-> <<>>]
    /\ cancelClicked' = FALSE
    /\ UNCHANGED <<masterLabel, labelOverrides, libVars, uiVars, templateId, clipboard, temporal,
                   columns, rows>>

\* One pass of the inner loop of generateBulkPDF: the label of the next row
\* is rendered at position j of its sheet, processedLabels is incremented,
\* onProgress is called and the loop yields to the event loop.
ExportLabel ==
    /\ exportJob.status = "running"
    /\ exportJob.processedLabels < Len(exportJob.effectiveRows)
    /\ LET index == exportJob.processedLabels
           j == index % labelsPerPage
           rowData == exportJob.effectiveRows[index + 1]
       IN /\ getLabelPosition(template, j) # None
          /\ exportJob' = [exportJob EXCEPT
                  !.processedLabels = @ + 1,
                  !.drawn = Append(@, [slot |-> index,
                                       elements |-> renderLabelToContext(masterLabel, rowData)])]
          /\ exportProgress' = [isOpen |-> TRUE, current |-> index + 1,
                                total |-> Len(exportJob.effectiveRows)]
    /\ UNCHANGED <<masterLabel, labelOverrides, libVars, uiVars, templateId, clipboard, temporal,
                   columns, rows, cancelClicked>>

\* After the last sheet: pdf.save, the final onProgress, and handleExport
\* closing the dialog when the awaited call returns.
ExportFinish ==
    /\ exportJob.status = "running"
    /\ exportJob.processedLabels = Len(exportJob.effectiveRows)
    /\ exportJob' = [exportJob EXCEPT !.status = "saved"]
    /\ exportProgress' = ProgressClosed
    /\ UNCHANGED <<masterLabel, labelOverrides, libVars, uiVars, templateId, clipboard, temporal,
                   columns, rows, cancelClicked>>

\* The Cancel button of ExportProgressDialog: onCancel closes the dialog.
CancelClick ==
    /\ exportProgress.isOpen
    /\ exportProgress' = ProgressClosed
    /\ cancelClicked' = TRUE
    /\ UNCHANGED <<masterLabel, labelOverrides, libVars, uiVars, templateId, clipboard, temporal,
                   columns, rows, exportJob>>

NextExport ==
    \/ HandleExport
    \/ ExportLabel
    \/ ExportFinish
    \/ CancelClick

SpecExport == InitExport /\ [][NextExport]_vars

\* ------------------------------------------- {ColumnName} token substitution
\* A text content is a sequence of segments: literal text without braces,
\* [kind |-> "text", s |-> ...], and matches of /\{([^}]+)\}/g,
\* [kind |-> "token", key |-> ...], key being the text between the braces.
\* The output of a substitution has one piece per segment: a literal or
\* substituted text, or the token segment itself where the match is kept.
MaxSegments == 2

\* The texts between braces that contents use.
TokenKeys == {"Name", " NAME ", "Missing"}

\* String.prototype.trim and toLowerCase on the strings that occur.
Trim(s) == IF s = " NAME " THEN "NAME" ELSE s

ToLowerCase(s) ==
    CASE s \in {"Name", "NAME", "name"} -> "name"
      [] s \in {"Missing", "missing"} -> "missing"
      [] s \in {"ID", "id"} -> "id"
      [] s \in {"Description", "description"} -> "description"
      [] OTHER -> s

SegmentInputs ==
    {[kind |-> "text", s |-> "Hello "]} \cup {[kind |-> "token", key |-> k] : k \in TokenKeys}

ContentInputs == UNION {[1..n -> SegmentInputs] : n \in 1..MaxSegments}

\* The column lists of the data store: the default ones, one column named
\* Name with a generated id, or none.
ColumnInputs == {DefaultColumns, <<[id |-> "col-1", name |-> "Name"]>>, <<>>}

\* The row a label is drawn with: a function from its keys (id and column
\* ids) to values, a value being null (None) or a string (Some(s)).
RowDataInputs ==
    {("id" :> Some("r1")),
     ("id" :> Some("r1")) @@ ("name" :> Some("Ann")),
     ("id" :> Some("r1")) @@ ("name" :> Some("")),
     ("id" :> Some("r1")) @@ ("name" :> None),
     ("id" :> Some("r1")) @@ ("col-1" :> Some("Bob"))}

\* columns.find(c => c.name.toLowerCase() === cleanKey.toLowerCase())
FindColumn(cols, cleanKey) ==
    LET Named(c) == ToLowerCase(c.name) = ToLowerCase(cleanKey)
        found == SelectSeq(cols, Named)
    IN IF found = <<>> THEN None ELSE Some(found[1])

\* Object.keys(rowData).find(k => k.toLowerCase() === cleanKey.toLowerCase())
FindRowKey(rowData, cleanKey) ==
    LET hits == {k \in DOMAIN rowData : ToLowerCase(k) = ToLowerCase(cleanKey)}
    IN IF hits = {} THEN None ELSE Some(CHOOSE k \in hits : TRUE)

\* value !== undefined && value !== null
IsPresent(rowData, key) == key \in DOMAIN rowData /\ rowData[key] # None

Text(s) == [kind |-> "text", s |-> s]

\* The replace callback of the canvas sink for one match.
CanvasReplace(segment, cols, dataRow) ==
    LET cleanKey == Trim(segment.key)
        column == FindColumn(cols, cleanKey)
        rowKey == FindRowKey(dataRow, cleanKey)
    IN IF column # None /\ IsPresent(dataRow, column[1].id)
       THEN Text(dataRow[column[1].id][1])
       ELSE IF rowKey # None /\ IsPresent(dataRow, rowKey[1])
            THEN Text(dataRow[rowKey[1]][1])
            ELSE segment

\* The replace callback of the PDF sink for one match.
PdfReplace(segment, cols, rowData) ==
    LET cleanKey == Trim(segment.key)
        column == FindColumn(cols, cleanKey)
        rowKey == FindRowKey(rowData, cleanKey)
    IN IF column # None /\ IsPresent(rowData, column[1].id) /\ rowData[column[1].id][1] # ""
       THEN Text(rowData[column[1].id][1])
       ELSE IF rowKey # None /\ IsPresent(rowData, rowKey[1]) /\ rowData[rowKey[1]][1] # ""
            THEN Text(rowData[rowKey[1]][1])
            ELSE Text("")

\* displayContent of the canvas's renderTextElement; dataRow is None when no
\* row is passed and there is no active row.
renderTextElement(element, cols, dataRow) ==
    IF dataRow = None THEN element.content
    ELSE IF element.binding # None
         THEN IF IsPresent(dataRow[1], element.binding[1]) /\ dataRow[1][element.binding[1]][1] # ""
              THEN <<Text(dataRow[1][element.binding[1]][1])>>
              ELSE <<Text("")>>
         ELSE [i \in 1..Len(element.content) |->
                  IF element.content[i].kind = "token"
                  THEN CanvasReplace(element.content[i], cols, dataRow[1])
                  ELSE element.content[i]]

\* content of the export's renderText.
renderText(element, cols, rowData) ==
    IF rowData = None THEN element.content
    ELSE [i \in 1..Len(element.content) |->
             IF element.content[i].kind = "token"
             THEN PdfReplace(element.content[i], cols, rowData[1])
             ELSE element.content[i]]

\* Text elements: one element with a content and, possibly, a binding of its
\* content to the column with id "name".
TextElementInputs ==
    {[id |-> 1, zIndex |-> 0, x |-> 0, visible |-> TRUE, content |-> c, binding |-> b] :
        c \in ContentInputs, b \in {None, Some("name")}}

InitTokens ==
    /\ masterLabel \in {[elements |-> <<el>>] : el \in TextElementInputs}
    /\ labelOverrides = EmptyMap
    /\ resolveLog = <<>>
    /\ lastCall = NoCall
    /\ supplied = NothingSupplied
    /\ InitUi
    /\ templateId = "avery-5163"
    /\ clipboard = <<>>
    /\ columns \in ColumnInputs
    /\ rows \in {<<>>} \cup {<<r>> : r \in RowDataInputs}
    /\ exportProgress = ProgressClosed
    /\ exportJob = NoJob
    /\ cancelClicked = FALSE
    /\ temporal = NoHistory

\* The row of the label drawn: rows[0], if there is one.
RowDrawn == IF rows = <<>> THEN None ELSE Some(rows[1])

\* The canvas draws the text element of the first label.
RenderTextElement ==
    /\ lastCall' = [NoCall EXCEPT !.op = "renderTextElement", !.elementId = 1,
                        !.result = renderTextElement(masterLabel.elements[1], columns, RowDrawn)]
    /\ UNCHANGED <<masterLabel, labelOverrides, resolveLog, supplied, uiVars, otherVars>>

\* The export draws the text element of the first label; with no rows it
\* draws the demo row { id: 'demo' }.
RenderText ==
    /\ lastCall' = [NoCall EXCEPT !.op = "renderText", !.elementId = 1,
                        !.result = renderText(masterLabel.elements[1], columns,
                                       IF rows = <<>> THEN Some(("id" :> Some("demo"))) ELSE RowDrawn)]
    /\ UNCHANGED <<masterLabel, labelOverrides, resolveLog, supplied, uiVars, otherVars>>

NextTokens ==
    \/ RenderTextElement
    \/ RenderText

SpecTokens == InitTokens /\ [][NextTokens]_vars

\* ------------------------------------------------------------- grid layout
\* Rows and columns of a custom template.
MaxGrid == 2

\* The geometry of the predefined templates, in units of 1/10000 mm.
SHEET_LETTER_PORTRAIT ==
    [width |-> 2159000, height |-> 2794000, marginTop |-> 127000,
     marginRight |-> 127000, marginBottom |-> 127000, marginLeft |-> 127000]

Avery(id, r, c, w, h) ==
    [id |-> id, rows |-> r, columns |-> c, labelWidth |-> w, labelHeight |-> h,
     horizontalSpacing |-> 31750, verticalSpacing |-> 0,
     offsetTop |-> 127000, offsetLeft |-> 47625,
     sheetConfig |-> SHEET_LETTER_PORTRAIT]

PREDEFINED_TEMPLATES ==
    {Avery("avery-5160", 10, 3, 666750, 254000),
     Avery("avery-5161", 10, 2, 1016000, 254000),
     Avery("avery-5163", 5, 2, 1016000, 508000),
     Avery("avery-5164", 3, 2, 1016000, 846670),
     Avery("avery-5167", 20, 4, 444500, 127000),
     Avery("avery-8160", 10, 3, 666750, 254000),
     Avery("avery-8163", 5, 2, 1016000, 508000),
     Avery("avery-8460", 10, 3, 666750, 254000)}

\* createCustomTemplate on a letter sheet (margins 12.7 mm): grids of 0 to
\* MaxGrid rows and columns of 50 mm x 25 mm labels, with and without spacing.
createCustomTemplate(r, c, horizontalSpacing, verticalSpacing) ==
    [id |-> "custom", rows |-> r, columns |-> c, labelWidth |-> 500000,
     labelHeight |-> 250000, horizontalSpacing |-> horizontalSpacing,
     verticalSpacing |-> verticalSpacing,
     offsetTop |-> SHEET_LETTER_PORTRAIT.marginTop,
     offsetLeft |-> SHEET_LETTER_PORTRAIT.marginLeft,
     sheetConfig |-> SHEET_LETTER_PORTRAIT]

TemplateInputs ==
    PREDEFINED_TEMPLATES
    \cup {createCustomTemplate(r, c, hs, vs) :
            r \in 0..MaxGrid, c \in 0..MaxGrid, hs \in {0, 20000}, vs \in {0, 10000}}

\* The slot indices asked for: every slot of the grid, and two on either side.
IndexInputs(tpl) == (-2)..(tpl.rows * tpl.columns + 1)

InitGrid ==
    /\ masterLabel = [elements |-> <<>>]
    /\ labelOverrides = EmptyMap
    /\ resolveLog = <<>>
    /\ lastCall = NoCall
    /\ supplied = NothingSupplied
    /\ InitUi
    /\ InitOther

\* A call of getLabelPosition(template, labelIndex); the record keeps the
\* template passed and the value returned.
GetLabelPosition(tpl, labelIndex) ==
    /\ lastCall' = [NoCall EXCEPT !.op = "getLabelPosition", !.labelIndex = labelIndex,
                        !.result = [template |-> tpl,
                                    position |-> getLabelPosition(tpl, labelIndex)]]
    /\ UNCHANGED <<masterLabel, labelOverrides, resolveLog, supplied, uiVars, otherVars>>

\* hasAdjacentLabel(template, labelIndex, side).
hasAdjacentLabel(tpl, labelIndex, side) ==
    LET position == getLabelPosition(tpl, labelIndex)
    IN IF position = None THEN FALSE
       ELSE CASE side = "left" -> position[1].col > 0
              [] side = "right" -> position[1].col < tpl.columns - 1
              [] side = "top" -> position[1].row > 0
              [] side = "bottom" -> position[1].row < tpl.rows - 1
              [] OTHER -> FALSE

\* const overflowExtension = 1000 (mm), in units of 1/10000 mm.
overflowExtension == 10000000

\* Math.max of two numbers.
Max2(a, b) == IF a > b THEN a ELSE b

\* getLabelClipRect(template, labelIndex): None for null.
getLabelClipRect(tpl, labelIndex) ==
    LET position == getLabelPosition(tpl, labelIndex)
        hasLeft == hasAdjacentLabel(tpl, labelIndex, "left")
        hasRight == hasAdjacentLabel(tpl, labelIndex, "right")
        hasTop == hasAdjacentLabel(tpl, labelIndex, "top")
        hasBottom == hasAdjacentLabel(tpl, labelIndex, "bottom")
    IN IF position = None THEN None
       ELSE IF ~hasLeft /\ ~hasRight /\ ~hasTop /\ ~hasBottom THEN None
       ELSE LET sheetWidth == tpl.sheetConfig.width
                sheetHeight == tpl.sheetConfig.height
                labelLeft == position[1].x
                clipX == IF hasLeft THEN labelLeft
                         ELSE Max2(0, labelLeft - overflowExtension)
                labelTop == position[1].y
                clipY == IF hasTop THEN labelTop
                         ELSE Max2(0, labelTop - overflowExtension)
                labelRight == labelLeft + tpl.labelWidth
                clipRight == IF hasRight THEN labelRight
                             ELSE sheetWidth + overflowExtension
                labelBottom == labelTop + tpl.labelHeight
                clipBottom == IF hasBottom THEN labelBottom
                              ELSE sheetHeight + overflowExtension
            IN Some([x |-> clipX, y |-> clipY,
                     width |-> clipRight - clipX, height |-> clipBottom - clipY])

\* A call of getLabelClipRect(template, labelIndex).
GetLabelClipRect(tpl, labelIndex) ==
    /\ lastCall' = [NoCall EXCEPT !.op = "getLabelClipRect", !.labelIndex = labelIndex,
                        !.result = [template |-> tpl,
                                    position |-> getLabelPosition(tpl, labelIndex),
                                    clipRect |-> getLabelClipRect(tpl, labelIndex)]]
    /\ UNCHANGED <<masterLabel, labelOverrides, resolveLog, supplied, uiVars, otherVars>>

\* Number.prototype.toFixed(1) of a length: the length rounded to a tenth of
\* a millimetre, as the number of tenths.
toFixed1(v) == (v + 500) \div 1000

\* validateTemplate(template). A message is the sentence it is built from
\* and the numbers interpolated into it, in order.
validateTemplate(tpl) ==
    LET totalWidth == tpl.offsetLeft + tpl.columns * tpl.labelWidth
                        + (tpl.columns - 1) * tpl.horizontalSpacing
        totalHeight == tpl.offsetTop + tpl.rows * tpl.labelHeight
                         + (tpl.rows - 1) * tpl.verticalSpacing
        printableWidth == tpl.sheetConfig.width - tpl.sheetConfig.marginLeft
                            - tpl.sheetConfig.marginRight
        printableHeight == tpl.sheetConfig.height - tpl.sheetConfig.marginTop
                             - tpl.sheetConfig.marginBottom
        e1 == IF totalWidth > printableWidth
              THEN <<[text |-> "Template width (_mm) exceeds printable width (_mm)",
                      numbers |-> <<toFixed1(totalWidth), toFixed1(printableWidth)>>]>>
              ELSE <<>>
        e2 == IF totalHeight > printableHeight
              THEN <<[text |-> "Template height (_mm) exceeds printable height (_mm)",
                      numbers |-> <<toFixed1(totalHeight), toFixed1(printableHeight)>>]>>
              ELSE <<>>
        e3 == IF tpl.labelWidth <= 0 \/ tpl.labelHeight <= 0
              THEN <<[text |-> "Label dimensions must be positive", numbers |-> <<>>]>>
              ELSE <<>>
        e4 == IF tpl.rows <= 0 \/ tpl.columns <= 0
              THEN <<[text |-> "Rows and columns must be positive", numbers |-> <<>>]>>
              ELSE <<>>
        errors == e1 \o e2 \o e3 \o e4
    IN [valid |-> Len(errors) = 0, errors |-> errors]

\* The templates validated: the library, and custom templates of labels of
\* several sizes, some of which do not fit the letter sheet.
ValidateInputs ==
    PREDEFINED_TEMPLATES
    \cup {[createCustomTemplate(r, c, hs, 0) EXCEPT !.labelWidth = w, !.labelHeight = h] :
            r \in 0..MaxGrid, c \in 0..MaxGrid, hs \in {0, 20000},
            w \in {0, 500000, 1000000}, h \in {0, 250000, 1500000}}

\* A call of validateTemplate(template).
ValidateTemplate(tpl) ==
    /\ lastCall' = [NoCall EXCEPT !.op = "validateTemplate",
                        !.result = [template |-> tpl,
                                    validation |-> validateTemplate(tpl)]]
    /\ UNCHANGED <<masterLabel, labelOverrides, resolveLog, supplied, uiVars, otherVars>>

NextGrid ==
    \/ \E tpl \in FirstCallInputs(ValidateInputs) : ValidateTemplate(tpl)
    \/ \E tpl \in FirstCallInputs(TemplateInputs) : \E labelIndex \in IndexInputs(tpl) :
          GetLabelPosition(tpl, labelIndex)
    \/ \E tpl \in FirstCallInputs(TemplateInputs) : \E labelIndex \in IndexInputs(tpl) :
          GetLabelClipRect(tpl, labelIndex)

SpecGrid == InitGrid /\ [][NextGrid]_vars

\* ------------------------------------------------- transform controls (resize)
\* Lengths are in tenths of a millimetre, screen distances in pixels. A
\* computed number is m + e * eps, where eps = 6.123233995736766e-17 is
\* Math.cos(Math.PI / 2): the sines and cosines of the right angles are not
\* all exact in floating point, and the residue is carried in e (terms in
\* eps * eps are dropped).
Num(m) == [m |-> m, e |-> 0]

Plus(a, b) == [m |-> a.m + b.m, e |-> a.e + b.e]

Times(a, b) == [m |-> a.m * b.m, e |-> a.m * b.e + a.e * b.m]

Minus(a) == [m |-> -a.m, e |-> -a.e]

\* Math.max(a, b).
MathMax(a, b) == IF a.m > b.m \/ (a.m = b.m /\ a.e > b.e) THEN a ELSE b

\* Math.cos and Math.sin of (rotation * Math.PI) / 180 at the right angles.
MathCos(rotation) ==
    CASE rotation = 0 -> [m |-> 1, e |-> 0]
      [] rotation = 90 -> [m |-> 0, e |-> 1]
      [] rotation = 180 -> [m |-> -1, e |-> 0]
      [] rotation = 270 -> [m |-> 0, e |-> -3]

MathSin(rotation) ==
    CASE rotation = 0 -> [m |-> 0, e |-> 0]
      [] rotation = 90 -> [m |-> 1, e |-> 0]
      [] rotation = 180 -> [m |-> 0, e |-> 2]
      [] rotation = 270 -> [m |-> -1, e |-> 0]

SCREEN_DPI == 96

\* const pxToMm = (px) => (px * 25.4) / dpi, in tenths of a millimetre.
pxToMm(px) == (px * 254) \div SCREEN_DPI

\* The minimum width and height of a resized element: Math.max(5, ...).
minSize == 50

\* The screen delta un-rotated onto the element's axes.
ToLocal_NoRotation(dxMmScreen, dyMmScreen, rotation) ==
    [dxMm |-> Num(dxMmScreen), dyMm |-> Num(dyMmScreen)]

ToLocal(dxMmScreen, dyMmScreen, rotation) ==
    LET cos == MathCos(rotation)
        sin == MathSin(rotation)
    IN [dxMm |-> Plus(Times(Num(dxMmScreen), cos), Times(Num(dyMmScreen), sin)),
        dyMm |-> Plus(Times(Minus(Num(dxMmScreen)), sin), Times(Num(dyMmScreen), cos))]

HandleTypes == {"nw", "n", "ne", "e", "se", "s", "sw", "w"}

\* handleMouseMove of TransformControls for a resize handle without Shift:
\* the new transform, from the transform at mouse down, the handle, the zoom
\* and the mouse's movement in pixels.
resizeTransform(startTransform, dragType, zoom, movedX, movedY) ==
    LET deltaX == movedX \div zoom
        deltaY == movedY \div zoom
        local == ToLocal(pxToMm(deltaX), pxToMm(deltaY), startTransform.rotation)
        dxMm == local.dxMm
        dyMm == local.dyMm
        cos == MathCos(startTransform.rotation)
        sin == MathSin(startTransform.rotation)
        zero == Num(0)
        dW == CASE dragType \in {"e", "se", "ne"} -> dxMm
                [] dragType \in {"w", "sw", "nw"} -> Minus(dxMm)
                [] OTHER -> zero
        dH == CASE dragType \in {"s", "se", "sw"} -> dyMm
                [] dragType \in {"n", "ne", "nw"} -> Minus(dyMm)
                [] OTHER -> zero
        dXLocal == IF dragType \in {"w", "sw", "nw"} THEN dxMm ELSE zero
        dYLocal == IF dragType \in {"n", "ne", "nw"} THEN dyMm ELSE zero
        dXWorld == Plus(Times(dXLocal, cos), Minus(Times(dYLocal, sin)))
        dYWorld == Plus(Times(dXLocal, sin), Times(dYLocal, cos))
    IN [x |-> Plus(Num(startTransform.x), dXWorld),
        y |-> Plus(Num(startTransform.y), dYWorld),
        width |-> MathMax(Num(minSize), Plus(Num(startTransform.width), dW)),
        height |-> MathMax(Num(minSize), Plus(Num(startTransform.height), dH)),
        rotation |-> startTransform.rotation]

\* The transforms at mouse down: sizes above and below the 5 mm minimum, at
\* the four right angles.
TransformInputs ==
    [x : {100}, y : {200}, width : {30, 400}, height : {30, 200},
     rotation : {0, 90, 180, 270}]

\* Mouse movements in pixels, along one axis or both.
MoveInputs == {-96, 0, 96}

ZoomInputs == {1, 2}

InitTransform ==
    /\ masterLabel = [elements |-> <<>>]
    /\ labelOverrides = EmptyMap
    /\ resolveLog = <<>>
    /\ lastCall = NoCall
    /\ supplied = NothingSupplied
    /\ InitUi
    /\ InitOther

\* A mouse move while a resize handle is dragged; the record keeps the
\* inputs and the transform passed to onUpdate.
TransformMouseMove(startTransform, dragType, zoom, movedX, movedY) ==
    /\ lastCall' = [NoCall EXCEPT !.op = "transformMouseMove",
                        !.result = [startTransform |-> startTransform,
                                    dragType |-> dragType,
                                    dxMmScreen |-> pxToMm(movedX \div zoom),
                                    dyMmScreen |-> pxToMm(movedY \div zoom),
                                    transform |-> resizeTransform(startTransform, dragType,
                                                                  zoom, movedX, movedY)]]
    /\ UNCHANGED <<masterLabel, labelOverrides, resolveLog, supplied, uiVars, otherVars>>

NextTransform ==
    \E startTransform \in FirstCallInputs(TransformInputs),
       dragType \in HandleTypes, zoom \in ZoomInputs,
       movedX \in MoveInputs, movedY \in MoveInputs :
        TransformMouseMove(startTransform, dragType, zoom, movedX, movedY)

SpecTransform == InitTransform /\ [][NextTransform]_vars

\* -------------------------------------------------------------- undo and redo
\* The store is wrapped in zundo's temporal middleware with
\* partialize = {template, masterLabel, labelOverrides} and no equality
\* function: every set() of the store pushes the partialized state it found
\* (the same objects, not copies) onto pastStates and empties futureStates;
\* undo and redo move one snapshot between the two lists and set the store's
\* three fields to the snapshot's objects.
\* Past states kept in a run.
MaxHistory == 3
\* LabelOverride objects allocated in a run.
MaxObjects == 1

\* limit: 50.
limit == 50

\* partialize(state): the template, the master and the override Map object.
Snapshot == [templateId |-> templateId, masterLabel |-> masterLabel, refs |-> temporal.refs]

\* The override Map of a snapshot as the store reads it now.
Deref(objects, refs) == [k \in DOMAIN refs |-> objects[refs[k]]]

\* pastStates after a tracked set that found the state pastState.
PushPast(pastStates, pastState) ==
    IF Len(pastStates) >= limit THEN Append(Tail(pastStates), pastState)
    ELSE Append(pastStates, pastState)

\* The history after `sets` tracked sets in a row, the first of which found
\* pastState and put newRefs in place; the later ones change no tracked field.
TrackedSets(sets, pastState, objects, newRefs) ==
    LET after == [pastState EXCEPT !.refs = newRefs]
        past1 == PushPast(temporal.pastStates, pastState)
    IN [pastStates |-> IF sets = 2 THEN PushPast(past1, after) ELSE past1,
        futureStates |-> <<>>,
        objects |-> objects,
        refs |-> newRefs]

\* The objects and the Map after slot labelIndex is given the record
\* newOverride: in place when the library returned the existing object.
StoreRecord(labelIndex, newOverride, inPlace) ==
    IF inPlace
    THEN [objects |-> [temporal.objects EXCEPT ![temporal.refs[labelIndex]] = newOverride],
          refs |-> temporal.refs]
    ELSE [objects |-> Append(temporal.objects, newOverride),
          refs |-> MapSet(temporal.refs, labelIndex, Len(temporal.objects) + 1)]

\* The slots of the page that are clicked.
HistorySlots == {0}

\* The masters edited in preview: one or two elements.
HistoryMasterInputs ==
    {[elements |-> <<[id |-> 1, zIndex |-> 0, x |-> 0, visible |-> TRUE]>>],
     [elements |-> <<[id |-> 1, zIndex |-> 0, x |-> 0, visible |-> TRUE],
                     [id |-> 2, zIndex |-> 1, x |-> 0, visible |-> TRUE]>>]}

\* Preview mode, page 0; nothing selected and no override yet.
InitHistory ==
    /\ masterLabel \in HistoryMasterInputs
    /\ labelOverrides = EmptyMap
    /\ resolveLog = <<>>
    /\ lastCall = NoCall
    /\ supplied = NothingSupplied
    /\ viewMode = "PREVIEW"
    /\ previewPageIndex = 0
    /\ selectedLabelIndex = None
    /\ selectedElementIds = <<>>
    /\ isDraggingElement = FALSE
    /\ elementIdCounter = Len(masterLabel.elements)
    /\ InitOther

\* What an edit of a slot records: the slot's resolved list before and after.
EditCall(op, labelIndex, elementId, existed, newOverrides) ==
    [NoCall EXCEPT !.op = op, !.labelIndex = labelIndex, !.elementId = elementId,
                   !.overridden = existed,
                   !.result = [before |-> getEffectiveElementsForLabel(
                                              masterLabel, labelOverrides, labelIndex),
                               after |-> getEffectiveElementsForLabel(
                                              masterLabel, newOverrides, labelIndex)]]

\* A click in preview mode on element clickedElementId of slot i of the page:
\* setSelectedLabel and setSelectedElements, two tracked sets.
HistoryCanvasClick(i, clickedElementId) ==
    LET absoluteLabelIndex == previewPageIndex * labelsPerPage + i
        elements == getEffectiveElementsForLabel(masterLabel, labelOverrides,
                                                 absoluteLabelIndex)
    IN /\ Len(temporal.pastStates) + 2 <= MaxHistory
       /\ FindElement(elements, clickedElementId) # None
       /\ FindElement(elements, clickedElementId)[1].visible
       /\ selectedLabelIndex' = Some(absoluteLabelIndex)
       /\ selectedElementIds' = <<clickedElementId>>
       /\ temporal' = TrackedSets(2, Snapshot, temporal.objects, temporal.refs)
       /\ lastCall' = [NoCall EXCEPT !.op = "click"]
       /\ UNCHANGED <<masterLabel, labelOverrides, resolveLog, supplied, viewMode,
                      previewPageIndex, isDraggingElement, elementIdCounter,
                      templateId, clipboard, sinkVars>>

\* PropertyPanel.handleUpdate in preview mode with a slot of the page
\* selected: updateLabelElement, one tracked set.
HistoryPanelUpdate(x) ==
    /\ Len(temporal.pastStates) + 1 <= MaxHistory
    /\ selectedLabelIndex # None
    /\ selectedElementIds # <<>>
    /\ SelectedElement # None
    /\ LET labelIndex == selectedLabelIndex[1]
           elementId == SelectedElement[1].id
           updates == [NoPatch EXCEPT !.x = Some(x)]
           existingOverride == MapGet(labelOverrides, labelIndex)
           onlyAdditional ==
               /\ FindElement(masterLabel.elements, elementId) = None
               /\ existingOverride # None
               /\ FindElement(existingOverride[1].additionalElements, elementId) # None
           newOverride == updateLabelElement(masterLabel, labelOverrides, labelIndex,
                                             elementId, updates)[labelIndex]
           stored == StoreRecord(labelIndex, newOverride,
                                 existingOverride # None /\ ~onlyAdditional)
       IN /\ Len(stored.objects) <= MaxObjects
          /\ temporal' = TrackedSets(1, Snapshot, stored.objects, stored.refs)
          /\ labelOverrides' = Deref(stored.objects, stored.refs)
          /\ lastCall' = EditCall("updateLabelElement", labelIndex, elementId,
                                  existingOverride # None,
                                  Deref(stored.objects, stored.refs))
    /\ UNCHANGED <<masterLabel, resolveLog, supplied, uiVars, templateId, clipboard,
                   sinkVars>>

\* PropertyPanel.handleDelete in preview mode with a slot selected:
\* hideElement, setLabelOverride and clearSelection, two tracked sets.
HistoryPanelDelete ==
    /\ Len(temporal.pastStates) + 2 <= MaxHistory
    /\ selectedLabelIndex # None
    /\ selectedElementIds # <<>>
    /\ SelectedElement # None
    /\ LET labelIndex == selectedLabelIndex[1]
           elementId == SelectedElement[1].id
           existingOverride == MapGet(labelOverrides, labelIndex)
           newOverride == hideElement(labelIndex, elementId, existingOverride)
           stored == StoreRecord(labelIndex, newOverride, existingOverride # None)
       IN /\ Len(stored.objects) <= MaxObjects
          /\ temporal' = TrackedSets(2, [Snapshot EXCEPT !.refs = stored.refs],
                                     stored.objects, stored.refs)
          /\ labelOverrides' = Deref(stored.objects, stored.refs)
          /\ lastCall' = EditCall("hideElement", labelIndex, elementId,
                                  existingOverride # None,
                                  Deref(stored.objects, stored.refs))
    /\ selectedElementIds' = <<>>
    /\ UNCHANGED <<masterLabel, resolveLog, supplied, viewMode, previewPageIndex,
                   selectedLabelIndex, isDraggingElement, elementIdCounter,
                   templateId, clipboard, sinkVars>>

\* Ctrl/Cmd + D with a selection: duplicateElements(selectedElementIds), one
\* tracked set that appends the copies to the master and selects them.
HistoryKeyDuplicate ==
    /\ Len(temporal.pastStates) + 1 <= MaxHistory
    /\ Len(selectedElementIds) > 0
    /\ masterLabel' = duplicateElements(masterLabel, selectedElementIds, elementIdCounter)
    /\ LET created == Len(masterLabel'.elements) - Len(masterLabel.elements)
       IN /\ elementIdCounter + created <= MaxElems
          /\ elementIdCounter' = elementIdCounter + created
          /\ selectedElementIds' =
                IF created = 0 THEN selectedElementIds
                ELSE [i \in 1..created |-> elementIdCounter + i]
    /\ temporal' = TrackedSets(1, Snapshot, temporal.objects, temporal.refs)
    /\ lastCall' = [NoCall EXCEPT !.op = "duplicateElements"]
    /\ UNCHANGED <<labelOverrides, resolveLog, supplied, viewMode, previewPageIndex,
                   selectedLabelIndex, isDraggingElement, templateId, clipboard,
                   sinkVars>>

\* undo(): the last past state becomes the store's state, the state it
\* replaces goes to futureStates.
Undo ==
    /\ Len(temporal.pastStates) > 0
    /\ LET nextState == temporal.pastStates[Len(temporal.pastStates)]
       IN /\ temporal' = [temporal EXCEPT
                             !.pastStates = SubSeq(@, 1, Len(@) - 1),
                             !.futureStates = Append(@, Snapshot),
                             !.refs = nextState.refs]
          /\ templateId' = nextState.templateId
          /\ masterLabel' = nextState.masterLabel
          /\ labelOverrides' = Deref(temporal.objects, nextState.refs)
    /\ lastCall' = [lastCall EXCEPT !.op = "undo"]
    /\ UNCHANGED <<resolveLog, supplied, uiVars, clipboard, sinkVars>>

\* redo(): the last future state becomes the store's state, the state it
\* replaces goes back to pastStates.
Redo ==
    /\ Len(temporal.futureStates) > 0
    /\ LET nextState == temporal.futureStates[Len(temporal.futureStates)]
       IN /\ temporal' = [temporal EXCEPT
                             !.pastStates = Append(@, Snapshot),
                             !.futureStates = SubSeq(@, 1, Len(@) - 1),
                             !.refs = nextState.refs]
          /\ templateId' = nextState.templateId
          /\ masterLabel' = nextState.masterLabel
          /\ labelOverrides' = Deref(temporal.objects, nextState.refs)
    /\ lastCall' = [lastCall EXCEPT !.op = "redo"]
    /\ UNCHANGED <<resolveLog, supplied, uiVars, clipboard, sinkVars>>

NextHistory ==
    \/ \E i \in HistorySlots, id \in ElementIds : HistoryCanvasClick(i, id)
    \/ \E x \in XValues : HistoryPanelUpdate(x)
    \/ HistoryPanelDelete
    \/ HistoryKeyDuplicate
    \/ Undo
    \/ Redo

SpecHistory == InitHistory /\ [][NextHistory]_vars

\* ------------------------------------------------ preview pages and the data set
\* Rows of the largest data set.
MaxPagingRows == 13

\* The library template with the id.
TemplateById(id) == CHOOSE t \in PREDEFINED_TEMPLATES : t.id = id

\* Toolbar: Math.ceil(totalRows / labelsPerPage) || 1.
TotalPages(totalRows, perPage) ==
    LET pages == (totalRows + perPage - 1) \div perPage
    IN IF pages = 0 THEN 1 ELSE pages

\* The pages of the data set under the store's template.
PagesNow ==
    TotalPages(Len(rows), TemplateById(templateId).rows * TemplateById(templateId).columns)

\* Data sets imported or loaded: none, or MaxPagingRows rows.
PagingRowInputs == {<<>>, [k \in 1..MaxPagingRows |-> [id |-> k]]}

InitPaging ==
    /\ masterLabel = [elements |-> <<>>]
    /\ labelOverrides = EmptyMap
    /\ resolveLog = <<>>
    /\ lastCall = NoCall
    /\ supplied = NothingSupplied
    /\ InitUi
    /\ InitOther

\* Toolbar.handlePreviousPage, handleNextPage and Go To Page.
PagingPreviousPage ==
    /\ previewPageIndex > 0
    /\ setPreviewPageIndex(previewPageIndex - 1)

PagingNextPage ==
    /\ previewPageIndex < PagesNow - 1
    /\ setPreviewPageIndex(previewPageIndex + 1)

PagingGoToPage(index) ==
    /\ index >= 0 /\ index < PagesNow
    /\ setPreviewPageIndex(index)

\* dataStore.setRows, addRow, removeRow and clearData.  Rows are added and
\* removed at the end of the data set, so the ids in it are 1..Len(rows).
SetRows(newRows) ==
    /\ rows' = newRows
    /\ UNCHANGED <<masterLabel, labelOverrides, libVars, uiVars, templateId, clipboard,
                   columns, exportProgress, exportJob, cancelClicked, temporal>>

AddRow ==
    /\ Len(rows) < MaxPagingRows
    /\ rows' = Append(rows, [id |-> Len(rows) + 1])
    /\ UNCHANGED <<masterLabel, labelOverrides, libVars, uiVars, templateId, clipboard,
                   columns, exportProgress, exportJob, cancelClicked, temporal>>

RemoveRow(id) ==
    /\ LET Keep(row) == row.id # id IN rows' = SelectSeq(rows, Keep)
    /\ UNCHANGED <<masterLabel, labelOverrides, libVars, uiVars, templateId, clipboard,
                   columns, exportProgress, exportJob, cancelClicked, temporal>>

ClearData ==
    /\ rows' = <<>>
    /\ UNCHANGED <<masterLabel, labelOverrides, libVars, uiVars, templateId, clipboard,
                   columns, exportProgress, exportJob, cancelClicked, temporal>>

NextPaging ==
    \/ PagingPreviousPage
    \/ PagingNextPage
    \/ \E index \in 0..MaxPagingRows : PagingGoToPage(index)
    \/ \E newRows \in PagingRowInputs : SetRows(newRows)
    \/ AddRow
    \/ \E k \in {Len(rows)} \ {0} : RemoveRow(rows[k].id)
    \/ ClearData
    \/ \E t \in TemplateIds : SetTemplate(t)

SpecPaging == InitPaging /\ [][NextPaging]_vars

\* ------------------------------------------- claims on override management
\* The entry of elementId in the record of slot 0, if any.
EntryOf(elementId) ==
    IF 0 \in DOMAIN labelOverrides
    THEN FindElementOverride(labelOverrides[0].elementOverrides, elementId)
    ELSE None

\* C7: whatever createElementOverride calls were made on the slot's record,
\* elementOverrides has at most one entry per element id, and the entry's
\* patch holds, field by field, the value of the latest supplied patch that
\* carried the field (fields no later patch carried are retained).
C7_OneMergedEntryPerId ==
    /\ \A id \in ElementIds : (supplied[id] # None) <=> (EntryOf(id) # None)
    /\ 0 \in DOMAIN labelOverrides =>
          LET eos == labelOverrides[0].elementOverrides
          IN /\ \A i, j \in 1..Len(eos) : eos[i].elementId = eos[j].elementId => i = j
             /\ \A i \in 1..Len(eos) : supplied[eos[i].elementId] = Some(eos[i].overrides)

\* A second patch for an id has just been merged: it carried no x, the stored
\* patch has the x of an earlier patch and the zIndex of this one.
C7_Witness ==
    /\ lastCall.op = "createElementOverride"
    /\ lastCall.overridden
    /\ lastCall.overrides.x = None
    /\ lastCall.overrides.zIndex # None
    /\ EntryOf(lastCall.elementId) # None
    /\ EntryOf(lastCall.elementId)[1].overrides.x # None
    /\ EntryOf(lastCall.elementId)[1].overrides.zIndex = lastCall.overrides.zIndex
    /\ Len(labelOverrides[0].elementOverrides) = 2

\* The resolved elements of a slot whose id is (same = TRUE) or is not
\* (same = FALSE) elementId, in resolved order; ResolvedFor is for slot 0.
ResolvedAt(master, overrides, labelIndex, elementId, same) ==
    LET Keep(el) == (el.id = elementId) = same
    IN SelectSeq(Els(getEffectiveElements(master, MapGet(overrides, labelIndex)).result),
                 Keep)

ResolvedFor(master, overrides, elementId, same) ==
    ResolvedAt(master, overrides, 0, elementId, same)

MasterElementsFor(master, elementId) ==
    LET Keep(el) == el.id = elementId IN SelectSeq(master.elements, Keep)

\* C8: after removeElementOverride(id) or resetElementOverride(id) on the
\* slot's record, and after showElement(id) when id has no patch, resolving the
\* slot yields for id exactly the current master element, and the resolution
\* of every other element of the slot is as it was before the call.
C8_BackToMaster ==
    [][(\/ lastCall'.op \in {"removeElementOverride", "resetElementOverride"}
        \/ /\ lastCall'.op = "showElement"
           /\ FindElementOverride(labelOverrides'[0].elementOverrides,
                                  lastCall'.elementId) = None)
       => /\ ResolvedFor(masterLabel', labelOverrides', lastCall'.elementId, TRUE)
               = MasterElementsFor(masterLabel', lastCall'.elementId)
          /\ ResolvedFor(masterLabel', labelOverrides', lastCall'.elementId, FALSE)
               = ResolvedFor(masterLabel, labelOverrides, lastCall'.elementId, FALSE)
      ]_vars

\* removeElementOverride has just dropped the patch or the hide entry of an
\* element of the master, while another element keeps a zIndex patch.
C8_Witness ==
    /\ lastCall.op = "removeElementOverride"
    /\ lastCall.overridden
    /\ MasterElementsFor(masterLabel, lastCall.elementId) # <<>>
    /\ \E id \in ElementIds :
          /\ id # lastCall.elementId
          /\ EntryOf(id) # None
          /\ EntryOf(id)[1].overrides.zIndex # None

\* ------------------------------------------------ claims on getAffectedLabels
\* C10: getAffectedLabels(elementId, totalSlots, overrides) returns, each once,
\* exactly the slots of 0..totalSlots-1 whose resolved rendering of elementId
\* changes when the master element is edited right after the call, and these
\* are exactly the slots with neither a hide entry nor a patch entry for the id.
C10_AffectedAreThoseThatChange ==
    [][(/\ lastCall.op = "getAffectedLabels"
        /\ lastCall'.op = "updateMasterElement"
        /\ masterLabel' # masterLabel)
       => LET id == lastCall.elementId
              returned == lastCall.result
              changed == {i \in 0..(MaxSlots - 1) :
                             ResolvedAt(masterLabel', labelOverrides, i, id, TRUE)
                               # ResolvedAt(masterLabel, labelOverrides, i, id, TRUE)}
              plain == {i \in 0..(MaxSlots - 1) :
                           \/ i \notin DOMAIN labelOverrides
                           \/ /\ ~Includes(labelOverrides[i].hiddenElementIds, id)
                              /\ FindElementOverride(labelOverrides[i].elementOverrides,
                                                     id) = None}
          IN /\ \A i, j \in 1..Len(returned) : returned[i] = returned[j] => i = j
             /\ {returned[i] : i \in 1..Len(returned)} = changed
             /\ changed = plain
      ]_vars

\* --------------------------------------------- claims on the store's handlers
\* The resolved lists of all slots but one.
OtherSlotsResolved(master, overrides, labelIndex) ==
    [j \in Slots \ {labelIndex} |-> getEffectiveElementsForLabel(master, overrides, j)]

\* C4: in preview mode with a slot selected, every edit of an element (drag
\* move, transform handle, property-panel change, arrow-key nudge, Delete key,
\* delete button) is written only to the selected slot's override: the master
\* element list and the resolved elements of every other slot are unchanged.
C4_PreviewEditsStayInSlot ==
    [][(/\ viewMode = "PREVIEW"
        /\ selectedLabelIndex # None
        /\ \/ \E x \in XValues : HandleMouseMove(x)
           \/ \E x \in XValues : TransformHandleUpdate(x)
           \/ \E x \in XValues : PanelHandleUpdate(x)
           \/ \E x \in XValues : KeyArrow(x)
           \/ KeyDelete
           \/ PanelHandleDelete)
       => /\ masterLabel' = masterLabel
          /\ OtherSlotsResolved(masterLabel', labelOverrides', selectedLabelIndex[1])
               = OtherSlotsResolved(masterLabel, labelOverrides, selectedLabelIndex[1])
      ]_vars

\* C5: an override stored for absolute slot k (a record with a patch, a hide
\* or an additional element) is applied when slot k is resolved or drawn and
\* nowhere else: without the record of slot k, every other slot of every page
\* is drawn the same, and so is the template-mode view of the master.
C5_OverrideTouchesOnlyItsSlot ==
    \A k \in DOMAIN labelOverrides :
        LET without == MapDelete(labelOverrides, k)
        IN hasOverrides(Some(labelOverrides[k])) =>
           /\ \A j \in Slots \ {k} :
                 renderLabel(masterLabel, labelOverrides, selectedLabelIndex, j)
                   = renderLabel(masterLabel, without, selectedLabelIndex, j)
           /\ viewMode = "TEMPLATE" =>
                 renderTemplateView(masterLabel, labelOverrides, selectedLabelIndex)
                   = renderTemplateView(masterLabel, without, selectedLabelIndex)

\* C9: a slot whose record is present but empty is resolved, reported by
\* hasOverrides and drawn (override indication included) exactly as it would
\* be with no record.
C9_EmptyRecordSameAsAbsent ==
    \A k \in DOMAIN labelOverrides :
        labelOverrides[k] = EmptyOverride(k) =>
           LET without == MapDelete(labelOverrides, k)
           IN /\ getEffectiveElementsForLabel(masterLabel, labelOverrides, k)
                   = getEffectiveElementsForLabel(masterLabel, without, k)
              /\ hasOverrides(MapGet(labelOverrides, k)) = hasOverrides(MapGet(without, k))
              /\ renderLabel(masterLabel, labelOverrides, selectedLabelIndex, k)
                   = renderLabel(masterLabel, without, selectedLabelIndex, k)


\* C11: in every reachable state no element of any slot's additionalElements
\* has the id of a master element.
C11_AdditionalIdsAreNotMasterIds ==
    \A k \in DOMAIN labelOverrides :
        \A i \in 1..Len(labelOverrides[k].additionalElements) :
            FindElement(masterLabel.elements,
                        labelOverrides[k].additionalElements[i].id) = None

\* ------------------------------------------------ claims on template selection
\* C12: setTemplate(t) is one state change after which the template is t and
\* the override map is empty, whatever the map held; so no step that changes
\* the template leaves a record of the old map behind.
C12_SetTemplateDiscardsOverrides ==
    [][/\ \A t \in TemplateIds :
            SetTemplate(t) => (templateId' = t /\ labelOverrides' = EmptyMap)
       /\ (templateId' # templateId => labelOverrides' = EmptyMap)]_vars

\* A template other than the first was set while the map held two records.
C12_Witness ==
    /\ lastCall.op = "setTemplate"
    /\ Cardinality(DOMAIN lastCall.result) >= 2
    /\ \E k \in DOMAIN lastCall.result : hasOverrides(Some(lastCall.result[k]))
    /\ templateId # "avery-5163"
    /\ labelOverrides = EmptyMap

\* ------------------------------------------- claims on the z-order operations
\* The ids of a master's elements in resolved stacking order, bottom first.
ResolvedIds(master) ==
    LET els == Els(getEffectiveElements(master, None).result)
    IN [i \in 1..Len(els) |-> els[i].id]

PositionOf(ids, id) == CHOOSE i \in 1..Len(ids) : ids[i] = id

\* ids with the entries at p and p + 1 exchanged.
SwapAt(ids, p) ==
    [i \in 1..Len(ids) |-> IF i = p THEN ids[p + 1] ELSE IF i = p + 1 THEN ids[p] ELSE ids[i]]

\* Every element but the two named keeps its zIndex.
OthersKeepZIndex(before, after, idA, idB) ==
    \A i \in 1..Len(before.elements) :
        before.elements[i].id \notin {idA, idB}
            => after.elements[i].zIndex = before.elements[i].zIndex

\* C13: bringForward(id) exchanges the target with the element directly above
\* it in the resolved stacking order (nothing moves when the target is on
\* top), sendBackward(id) with the element directly below it (nothing moves
\* when it is at the bottom); every other element keeps its zIndex and place.
C13_ForwardBackwardMoveOneStep ==
    [][\A id \in 1..Len(masterLabel.elements) :
          LET before == ResolvedIds(masterLabel)
              after  == ResolvedIds(masterLabel')
              p      == PositionOf(before, id)
          IN /\ BringForward(id) =>
                   IF p < Len(before)
                   THEN /\ after = SwapAt(before, p)
                        /\ OthersKeepZIndex(masterLabel, masterLabel', id, before[p + 1])
                   ELSE masterLabel' = masterLabel
             /\ SendBackward(id) =>
                   IF p > 1
                   THEN /\ after = SwapAt(before, p - 1)
                        /\ OthersKeepZIndex(masterLabel, masterLabel', id, before[p - 1])
                   ELSE masterLabel' = masterLabel]_vars

\* The visible elements getEffectiveElements returns for a master and a record
\* that hides the ids of `hidden` (no record when hidden is None), as ids.
VisibleResolvedIds(master, hidden) ==
    LET override == IF hidden = None THEN None
                    ELSE Some([EmptyOverride(0) EXCEPT !.hiddenElementIds = SetToSeq(hidden[1])])
        els == Els(getEffectiveElements(master, override).result)
        Visible(el) == el.visible
        shown == SelectSeq(els, Visible)
    IN [i \in 1..Len(shown) |-> shown[i].id]

\* C14: after bringToFront(A) on a master that contains A, A's zIndex is
\* max(all zIndexes before the call, -1) + 1, and a following
\* getEffectiveElements, for the master alone or for a slot that hides any of
\* its elements, lists A last among the visible, unhidden elements.
C14_BringToFrontPutsLast ==
    [][\A id \in 1..Len(masterLabel.elements) :
          BringToFront(id) =>
            /\ FindElement(masterLabel'.elements, id)[1].zIndex
                   = MaxOf(ZIndexes(masterLabel.elements) \cup {-1}) + 1
            /\ \A hidden \in {None} \cup {Some(S) : S \in SUBSET (1..Len(masterLabel.elements))} :
                  LET shown == VisibleResolvedIds(masterLabel', hidden)
                  IN Includes(shown, id) => shown[Len(shown)] = id]_vars

\* bringToFront was called on the visible bottom element of a stack of three
\* or more whose top zIndex another element shared with none, and it is last now.
C14_Witness ==
    /\ lastCall.op = "bringToFront"
    /\ Len(lastCall.result.master.elements) >= 3
    /\ ResolvedIds(lastCall.result.master)[1] = lastCall.elementId
    /\ LET shown == VisibleResolvedIds(masterLabel, None)
       IN /\ Len(shown) >= 3
          /\ shown[Len(shown)] = lastCall.elementId

\* C15: reorderElements(orderedIds), for a full or a partial list of ids,
\* gives each listed element the zIndex of its 0-based position in the list
\* and leaves every element not in the list, and every other field, as it was.
C15_ReorderAssignsListPositions ==
    [][lastCall'.op = "reorderElements" =>
          LET elementIds == lastCall'.result.elementIds
          IN
            /\ Len(masterLabel'.elements) = Len(masterLabel.elements)
            /\ \A i \in 1..Len(masterLabel.elements) :
                  LET el == masterLabel.elements[i]
                      updated == masterLabel'.elements[i]
                  IN /\ [updated EXCEPT !.zIndex = el.zIndex] = el
                     /\ \A p \in 1..Len(elementIds) :
                            elementIds[p] = el.id => updated.zIndex = p - 1
                     /\ ~Includes(elementIds, el.id) => updated.zIndex = el.zIndex]_vars

\* A partial list was applied: a listed element changed its zIndex and an
\* element left out kept a zIndex that is not its place in the master list.
C15_Witness ==
    /\ lastCall.op = "reorderElements"
    /\ LET before == lastCall.result.master.elements
           ids == lastCall.result.elementIds
       IN /\ Len(ids) >= 2
          /\ Len(ids) < Len(before)
          /\ \E i \in 1..Len(before) :
                /\ Includes(ids, before[i].id)
                /\ masterLabel.elements[i].zIndex # before[i].zIndex
          /\ \E i \in 1..Len(before) :
                /\ ~Includes(ids, before[i].id)
                /\ before[i].zIndex # i - 1
                /\ masterLabel.elements[i].zIndex = before[i].zIndex

\* C16: every element addElementToMaster, pasteElements or duplicateElements
\* creates gets a zIndex strictly greater than that of every element the
\* master held before the operation, and so resolves above all of them (the
\* resolved stack is the earlier stack followed by the created elements); the
\* elements the master held are unchanged.
C16_CreatedElementsOnTop ==
    [][lastCall'.op \in {"addElementToMaster", "pasteElements", "duplicateElements"} =>
          LET before == masterLabel.elements
              after  == masterLabel'.elements
          IN /\ SubSeq(after, 1, Len(before)) = before
             /\ \A j \in (Len(before) + 1)..Len(after) :
                   \A i \in 1..Len(before) : after[j].zIndex > before[i].zIndex
             /\ ResolvedIds(masterLabel')
                  = ResolvedIds(masterLabel)
                    \o [j \in 1..(Len(after) - Len(before)) |-> after[Len(before) + j].id]]_vars

\* Two elements were pasted onto a master of two or more elements whose
\* zIndex values are all negative.
C16_Witness ==
    /\ lastCall.op = "pasteElements"
    /\ LET before == lastCall.result.master.elements
       IN /\ Len(before) >= 2
          /\ \A i \in 1..Len(before) : before[i].zIndex < 0
          /\ Len(masterLabel.elements) = Len(before) + 2

\* ---------------------------------------------------- claims on bulk export
\* C17: for every exported slot, the export draws the visible elements of the
\* slot's resolved list (master merged with the slot's override), in
\* ascending zIndex order: the list the preview draws for that slot.
C17_ExportDrawsResolvedList ==
    \A k \in 1..Len(exportJob.drawn) :
        exportJob.drawn[k].elements
            = renderLabel(masterLabel, labelOverrides, None, exportJob.drawn[k].slot).elements

\* C19: every exported label is followed by a progress report of the labels
\* done so far, and once Cancel has been clicked during an export no further
\* label is rendered.
C19_ProgressAndCooperativeCancel ==
    [][/\ ExportLabel =>
             exportProgress' = [isOpen |-> TRUE,
                                current |-> exportJob'.processedLabels,
                                total |-> Len(exportJob.effectiveRows)]
       /\ (cancelClicked /\ exportJob.status = "running")
             => exportJob'.drawn = exportJob.drawn]_vars

\* ------------------------------------------- claims on token substitution
\* The token's name matches no column name and no key of the row,
\* case-insensitively.
MatchesNoColumn(segment, cols, rowData) ==
    /\ FindColumn(cols, Trim(segment.key)) = None
    /\ FindRowKey(rowData, Trim(segment.key)) = None

\* C18: when a text element's content is resolved against a data row by
\* token substitution, on the canvas and in the PDF export alike, every token
\* whose name matches no column of the row is left in the output verbatim.
C18_UnmatchedTokensVerbatim ==
    LET element == masterLabel.elements[1]
        byTokens == \/ lastCall.op = "renderText"
                    \/ lastCall.op = "renderTextElement" /\ element.binding = None
    IN (byTokens /\ rows # <<>>) =>
          \A i \in 1..Len(element.content) :
              (/\ element.content[i].kind = "token"
               /\ MatchesNoColumn(element.content[i], columns, rows[1]))
                  => lastCall.result[i] = element.content[i]

\* ------------------------------------------------------ claims on grid layout
\* C20: getLabelPosition(template, i) returns null exactly when i is outside
\* [0, rows * columns); otherwise row = floor(i / columns), col = i mod columns,
\* x = offsetLeft + col * (labelWidth + horizontalSpacing) and
\* y = offsetTop + row * (labelHeight + verticalSpacing), unrounded: slot 1 of
\* the 5 x 2 template is at x = 109.5375 mm, y = 12.7 mm.
C20_LabelPositionFormula ==
    lastCall.op = "getLabelPosition" =>
        LET tpl == lastCall.result.template
            i == lastCall.labelIndex
            position == lastCall.result.position
        IN /\ (position = None) <=> ~(0 <= i /\ i < tpl.rows * tpl.columns)
           /\ position # None =>
                 LET p == position[1]
                 IN /\ p.row * tpl.columns <= i
                    /\ i < (p.row + 1) * tpl.columns
                    /\ p.col = i - p.row * tpl.columns
                    /\ p.x = tpl.offsetLeft + p.col * (tpl.labelWidth + tpl.horizontalSpacing)
                    /\ p.y = tpl.offsetTop + p.row * (tpl.labelHeight + tpl.verticalSpacing)
           /\ (tpl.id = "avery-5163" /\ i = 1) =>
                 (position # None /\ position[1].x = 1095375 /\ position[1].y = 127000)

\* Slot 1 of AVERY_5163 was asked for and is in row 0, column 1.
C20_Witness ==
    /\ lastCall.op = "getLabelPosition"
    /\ lastCall.result.template.id = "avery-5163"
    /\ lastCall.labelIndex = 1
    /\ lastCall.result.position # None
    /\ lastCall.result.position[1].row = 0
    /\ lastCall.result.position[1].col = 1
    /\ lastCall.result.position[1].x = 1095375

\* How far the clip rectangle reaches beyond the label's box on each side.
ClipExtension(call) ==
    LET position == call.position[1]
        clip == call.clipRect[1]
        tpl == call.template
    IN [left |-> position.x - clip.x,
        top |-> position.y - clip.y,
        right |-> (clip.x + clip.width) - (position.x + tpl.labelWidth),
        bottom |-> (clip.y + clip.height) - (position.y + tpl.labelHeight)]

\* C21: for a valid slot with at least one neighbour, on every edge without
\* a neighbour the rectangle of getLabelClipRect reaches beyond the label's
\* box by at least the sheet's dimension in that direction.
C21_FreeEdgesExtendBySheet ==
    (lastCall.op = "getLabelClipRect" /\ lastCall.result.clipRect # None) =>
        LET tpl == lastCall.result.template
            i == lastCall.labelIndex
            ext == ClipExtension(lastCall.result)
        IN /\ ~hasAdjacentLabel(tpl, i, "left") => ext.left >= tpl.sheetConfig.width
           /\ ~hasAdjacentLabel(tpl, i, "right") => ext.right >= tpl.sheetConfig.width
           /\ ~hasAdjacentLabel(tpl, i, "top") => ext.top >= tpl.sheetConfig.height
           /\ ~hasAdjacentLabel(tpl, i, "bottom") => ext.bottom >= tpl.sheetConfig.height

\* The width and height a template needs, and those the sheet can print.
TotalWidth(tpl) ==
    tpl.offsetLeft + tpl.columns * tpl.labelWidth + (tpl.columns - 1) * tpl.horizontalSpacing

TotalHeight(tpl) ==
    tpl.offsetTop + tpl.rows * tpl.labelHeight + (tpl.rows - 1) * tpl.verticalSpacing

PrintableWidth(tpl) ==
    tpl.sheetConfig.width - tpl.sheetConfig.marginLeft - tpl.sheetConfig.marginRight

PrintableHeight(tpl) ==
    tpl.sheetConfig.height - tpl.sheetConfig.marginTop - tpl.sheetConfig.marginBottom

\* Some message of the validation states the number delta.
StatesDelta(validation, delta) ==
    \E i \in 1..Len(validation.errors) :
        \E j \in 1..Len(validation.errors[i].numbers) :
            validation.errors[i].numbers[j] = toFixed1(delta)

\* C22: whenever validateTemplate reports a template invalid because its
\* labels do not fit the printable area, a message of the result states by
\* how much the layout overflows (total minus printable), horizontally or
\* vertically.
C22_OverflowMessageStatesDelta ==
    lastCall.op = "validateTemplate" =>
        LET tpl == lastCall.result.template
            validation == lastCall.result.validation
        IN /\ TotalWidth(tpl) > PrintableWidth(tpl) =>
                 StatesDelta(validation, TotalWidth(tpl) - PrintableWidth(tpl))
           /\ TotalHeight(tpl) > PrintableHeight(tpl) =>
                 StatesDelta(validation, TotalHeight(tpl) - PrintableHeight(tpl))

\* C30: validateTemplate reports every template of the predefined library
\* valid.
C30_LibraryTemplatesAreValid ==
    (lastCall.op = "validateTemplate" /\ lastCall.result.template \in PREDEFINED_TEMPLATES) =>
        lastCall.result.validation.valid

\* ------------------------------------------- claims on the transform controls
\* The last call dragged the east handle of an element rotated 90 degrees.
EastAt90 ==
    /\ lastCall.op = "transformMouseMove"
    /\ lastCall.result.dragType = "e"
    /\ lastCall.result.startTransform.rotation = 90

\* C23 as stated: for an element rotated 90 degrees, dragging the east handle
\* by a pure horizontal screen delta changes the element's height, and only
\* its height: the width is unchanged.
C23_HorizontalDragChangesHeight ==
    (EastAt90 /\ lastCall.result.dxMmScreen # 0 /\ lastCall.result.dyMmScreen = 0) =>
        /\ lastCall.result.transform.height.m # lastCall.result.startTransform.height
        /\ lastCall.result.transform.width.m = lastCall.result.startTransform.width

\* C23 as amended: for an element rotated 90 degrees with width and height
\* of at least the 5 mm minimum, dragging the east handle never changes the
\* height; a pure horizontal screen delta leaves the width unchanged too (up
\* to the rounding residue cos(90 deg) * delta), and a pure vertical screen
\* delta dy changes the width to max(5 mm, width + dy).
C23_EastHandleAt90FollowsVerticalDelta ==
    (/\ EastAt90
     /\ lastCall.result.startTransform.width >= minSize
     /\ lastCall.result.startTransform.height >= minSize) =>
        LET start == lastCall.result.startTransform
            new == lastCall.result.transform
            dx == lastCall.result.dxMmScreen
            dy == lastCall.result.dyMmScreen
        IN /\ new.height = Num(start.height)
           /\ new.x = Num(start.x) /\ new.y = Num(start.y)
           /\ dy = 0 => new.width.m = start.width
           /\ dx = 0 => new.width = Num(IF start.width + dy > minSize
                                        THEN start.width + dy ELSE minSize)

\* The east handle of an element rotated 90 degrees was dragged straight
\* down and the element grew wider, and only wider.
C23_Witness ==
    /\ EastAt90
    /\ lastCall.result.dxMmScreen = 0
    /\ lastCall.result.dyMmScreen > 0
    /\ lastCall.result.startTransform.width >= minSize
    /\ lastCall.result.transform.width.m > lastCall.result.startTransform.width
    /\ lastCall.result.transform.height.m = lastCall.result.startTransform.height

\* ------------------------------------------------- claims on undo and redo
\* C24: after a preview-mode edit to a slot that already has an override
\* record (a further updateLabelElement patch, or hiding an element), one
\* undo restores the slot's resolved element list to exactly what it was
\* before the edit.
C24_UndoRestoresSlot ==
    [][(/\ lastCall.op \in {"updateLabelElement", "hideElement"}
        /\ lastCall.overridden
        /\ lastCall'.op = "undo")
       => getEffectiveElementsForLabel(masterLabel', labelOverrides', lastCall.labelIndex)
            = lastCall.result.before]_vars

\* ------------------------------------------ claims on selection and paging
\* C25: selectedLabelIndex is null or an absolute slot index on the page
\* shown: within [previewPageIndex * rows * columns,
\* (previewPageIndex + 1) * rows * columns).
C25_SelectedSlotOnShownPage ==
    selectedLabelIndex # None =>
        /\ selectedLabelIndex[1] >= previewPageIndex * labelsPerPage
        /\ selectedLabelIndex[1] < (previewPageIndex + 1) * labelsPerPage

\* C28: whenever a slot of the page shown is selected in preview mode, the
\* grid position looked up for the drag hit test and the transform handles
\* (getLabelPosition at selectedLabelIndex) is not null and is the position
\* at which the slot is drawn (getLabelPosition at its index on the page).
C28_SelectedSlotPositionIsOnPage ==
    (/\ viewMode = "PREVIEW"
     /\ selectedLabelIndex # None
     /\ selectedLabelIndex[1] >= previewPageIndex * labelsPerPage
     /\ selectedLabelIndex[1] < (previewPageIndex + 1) * labelsPerPage) =>
        /\ getLabelPosition(template, selectedLabelIndex[1]) # None
        /\ getLabelPosition(template, selectedLabelIndex[1])
             = getLabelPosition(template,
                                selectedLabelIndex[1] - previewPageIndex * labelsPerPage)

\* C27: 0 <= previewPageIndex < max(1, ceil(rowCount / (rows * columns))).
C27_PreviewPageExists ==
    LET perPage == TemplateById(templateId).rows * TemplateById(templateId).columns
        pages == (Len(rows) + perPage - 1) \div perPage
    IN /\ previewPageIndex >= 0
       /\ previewPageIndex < (IF pages > 1 THEN pages ELSE 1)

\* The sequence in reverse order.
Reversed(seq) == [i \in 1..Len(seq) |-> seq[Len(seq) + 1 - i]]

\* C29: after a drop in the layers panel the stacking order of the master
\* elements is the order the panel produced: the element listed first renders
\* on top of all others, the second below it, and so on.
C29_DropOrderIsStackingOrder ==
    lastCall.op = "handleDrop" =>
        ResolvedIds(masterLabel) = Reversed(lastCall.result.elementIds)

\* The ids of the elements of a list.
IdsIn(elements) == {elements[i].id : i \in 1..Len(elements)}

\* C26: in every reachable state every id in selectedElementIds names an
\* element that exists in the master or in the resolved list of the selected
\* slot.
C26_SelectionNamesExistingElements ==
    \A k \in 1..Len(selectedElementIds) :
        \/ selectedElementIds[k] \in IdsIn(masterLabel.elements)
        \/ /\ selectedLabelIndex # None
           /\ selectedElementIds[k] \in
                IdsIn(Els(getEffectiveElements(masterLabel,
                          MapGet(labelOverrides, selectedLabelIndex[1])).result))

====
